---- MODULE Spec2Model ----
(***************************************************************************)
(* A model of cargo's manifest resolution, src/cargo/util/toml/mod.rs:     *)
(* the resolution of one dependency declaration (to_dependency), the       *)
(* profile merge and validation (TomlProfile), and the resolution pass     *)
(* (TomlManifest::to_real_manifest) with its lazily loaded workspace root. *)
(*                                                                         *)
(* Conventions.  Option<T> is a sequence of length at most one: None is    *)
(* <<>> and Some(v) is <<v>>.  A string whose characters the code looks at *)
(* (contains, starts_with, to_lowercase) is a sequence of one-character    *)
(* strings; a string the code only compares or copies is a TLA+ string.    *)
(* A path is the sequence of its components.                               *)
(***************************************************************************)
EXTENDS Integers, Sequences, FiniteSets, TLC

VARIABLES
    pc,            \* position of the operation under way
    dep,           \* the dependency declaration being resolved (SpecDep)
    depName,       \* its key in the dependency table (name_in_toml)
    depKind,       \* the kind of the table it is declared in
    cx,            \* Context: source_id, root, platform, features
    warnings,      \* cx.warnings
    nested_paths,  \* cx.nested_paths
    depResult,     \* what to_dependency returned
    selfProfile,   \* the profile merge is called on, before the call (SpecMerge)
    otherProfile,  \* the profile merged into it
    merged,        \* the profile merge is called on, after the call
    pool,          \* the profiles at hand in a chain of merges (SpecChain)
    profileName,   \* the name of the profile validate is called on (SpecValidate)
    cargo_features,\* the capabilities the document declares (Features)
    validateResult,\* what validate returned
    me,            \* the document of the pass, a TomlManifest (Spec)
    env,           \* what the pass reads from outside: the root document, the targets
    workspace_config, \* WorkspaceConfig of the document
    inherit_cell,  \* the LazyCell<InheritableFields> of the pass
    loads,         \* how many times the pass has loaded a root document
    requests,      \* how many times the pass has called inherit()
    deps,          \* cx.deps
    processed,     \* the declarations to_dependency was called on, with the outcome
    platform_i,    \* position of the loop over the per-platform tables
    resolved,      \* the fields of the package resolved so far
    passResult,    \* what to_real_manifest returned
    document       \* the contents read_manifest_from_str is given (SpecRead)

depVars == <<dep, depName, depKind, cx, depResult>>

mergeVars == <<selfProfile, otherProfile, merged, pool>>

validateVars == <<profileName, validateResult>>

passVars == <<me, env, workspace_config, inherit_cell, loads, requests, deps, processed,
              platform_i, resolved, passResult, document>>

vars == <<pc, warnings, nested_paths, cargo_features, depVars, mergeVars, validateVars, passVars>>

-----------------------------------------------------------------------------
(* Option<T> *)

None == <<>>

Some(v) == <<v>>

IsSome(o) == o # <<>>

IsNone(o) == o = <<>>

Unwrap(o) == o[1]

UnwrapOr(o, d) == IF o = <<>> THEN d ELSE o[1]

OrElse(o, p) == IF o = <<>> THEN p ELSE o

Opt(S) == {None} \cup {Some(v) : v \in S}

\* let v = ..; the rest
Bind(v, rest(_)) == rest(v)

\* let v = r?; the rest: an Err is returned as it is
Try(r, rest(_)) == IF r.ok THEN rest(r) ELSE r

-----------------------------------------------------------------------------
(* The variables of an operation, where another one is specified *)

IdleDep ==
    /\ dep = None
    /\ depName = ""
    /\ depKind = None
    /\ cx = None
    /\ depResult = None

IdleMerge == selfProfile = None /\ otherProfile = None /\ merged = None /\ pool = {}

IdleValidate == profileName = None /\ validateResult = None

IdlePass ==
    /\ me = None
    /\ env = None
    /\ workspace_config = None
    /\ inherit_cell = None
    /\ loads = 0
    /\ requests = 0
    /\ deps = <<>>
    /\ processed = <<>>
    /\ platform_i = 0
    /\ resolved = None
    /\ passResult = None
    /\ document = None

-----------------------------------------------------------------------------
(* Bounds of the model *)

\* longest feature list of a dependency declaration
MaxFeatures == 2

\* how many distinct values a profile knob takes
MaxKnobValues == 2

\* how many fields of a package request inheritance at once
MaxInheriting == 2

\* how many per-platform tables a document has
MaxPlatforms == 2

\* how many profiles a chain of merges may have at hand
MaxPool == 5

-----------------------------------------------------------------------------
(* Strings the code inspects, as character sequences *)

\* str::contains(char)
Contains(s, ch) == \E i \in 1..Len(s) : s[i] = ch

\* str::starts_with(&str)
StartsWith(s, prefix) ==
    /\ Len(s) >= Len(prefix)
    /\ \A i \in 1..Len(prefix) : s[i] = prefix[i]

DepPrefix == <<"d", "e", "p", ":">>

FeatA == <<"a">>

FeatSlash == <<"a", "/", "b">>

FeatDep == <<"d", "e", "p", ":", "a">>

FeatDepSlash == <<"d", "e", "p", ":", "a", "/", "b">>

FeatInnerDep == <<"x", "d", "e", "p", ":">>

FeatureStrings == {FeatA, FeatSlash, FeatDep, FeatDepSlash, FeatInnerDep}

VersionPlain == <<"1", ".", "0">>

VersionMeta == <<"1", ".", "0", "+", "m">>

VersionInvalid == <<"?">>

\* every sequence over S of length at most n
SeqUpTo(S, n) == UNION {[1..k -> S] : k \in 0..n}

-----------------------------------------------------------------------------
(* Paths *)

\* Path::join of an absolute root and a relative path
Join(root, rel) == root \o rel

RECURSIVE NormalizeFrom(_, _)
NormalizeFrom(done, rest) ==
    IF rest = <<>> THEN done
    ELSE IF Head(rest) = ".."
         THEN NormalizeFrom(IF done = <<>> THEN done ELSE SubSeq(done, 1, Len(done) - 1),
                            Tail(rest))
    ELSE IF Head(rest) = "."
         THEN NormalizeFrom(done, Tail(rest))
    ELSE NormalizeFrom(Append(done, Head(rest)), Tail(rest))

\* paths::normalize_path: drops `.` and resolves `..` without touching the disk
normalize_path(p) == NormalizeFrom(<<>>, p)

-----------------------------------------------------------------------------
(* SourceId, GitReference, URLs, capabilities *)

SourceRec(kind, url, path, reference) ==
    [kind |-> kind, url |-> url, path |-> path, reference |-> reference]

GitRef(kind, value) == [kind |-> kind, value |-> value]

DefaultBranch == GitRef("DefaultBranch", "")

\* a URL string by its parts: whether it parses, its body and its fragment
Url(valid, body, fragment) == [valid |-> valid, body |-> body, fragment |-> fragment]

GitUrlPlain == Url(TRUE, "https://git.example/repo", None)

GitUrlFragment == Url(TRUE, "https://git.example/repo", Some("abc123"))

GitUrlInvalid == Url(FALSE, "not a url", None)

IndexUrlAlt == Url(TRUE, "https://alt.example/index", None)

IndexUrlInvalid == Url(FALSE, "not an index", None)

\* IntoUrl::into_url succeeds on a string that parses as a URL
into_url_ok(u) == u.valid

SourceId_for_git(loc, reference) == SourceRec("Git", loc.body, <<>>, reference)

SourceId_for_path(path) == SourceRec("Path", "", path, DefaultBranch)

SourceId_for_registry(url) == SourceRec("Registry", url.body, <<>>, DefaultBranch)

SourceId_crates_io == SourceRec("DefaultIndex", "", <<>>, DefaultBranch)

\* the registries named in the configuration
ConfiguredRegistries == {"alt"}

alt_registry_ok(name) == name \in ConfiguredRegistries

SourceId_alt_registry(name) == SourceId_for_registry(IndexUrlAlt)

SourceIdRegistryOfConsumer == SourceRec("Registry", "https://consumer.example/index", <<>>, DefaultBranch)

is_path(source_id) == source_id.kind = "Path"

\* Features::require: a gated construct needs its capability declared
require_ok(features, capability) == capability \in features

Capabilities == {"workspace-inheritance", "public-dependency", "codegen-backend", "profile-rustflags"}

-----------------------------------------------------------------------------
(* Errors and warnings *)

Error(kind, what, about) == [kind |-> kind, what |-> what, about |-> about]

Warning(kind, what, about) == [kind |-> kind, what |-> what, about |-> about]

\* StringOrBool, U32OrBool, VecStringOrBool: the variant and the value as written
Tagged(tag, s) == [tag |-> tag, s |-> s]

-----------------------------------------------------------------------------
(* TomlDependency, DetailedTomlDependency, Dependency *)

Detailed(version, registry, registry_index, path, git, branch, tag, rev, features,
         optional, default_features, default_features2, package, public, artifact,
         lib, target) ==
    [version |-> version, registry |-> registry, registry_index |-> registry_index,
     path |-> path, git |-> git, branch |-> branch, tag |-> tag, rev |-> rev,
     features |-> features, optional |-> optional,
     default_features |-> default_features, default_features2 |-> default_features2,
     package |-> package, public |-> public, artifact |-> artifact, lib |-> lib,
     target |-> target]

\* DetailedTomlDependency::default()
DetailedDefault ==
    Detailed(None, None, None, None, None, None, None, None, None,
             None, None, None, None, None, None, None, None)

TomlWorkspaceDependency(workspace, features, optional) ==
    [workspace |-> workspace, features |-> features, optional |-> optional]

Simple(version) ==
    [tag |-> "Simple", simple |-> Some(version), detailed |-> None, ws |-> None]

DetailedDep(d) ==
    [tag |-> "Detailed", simple |-> None, detailed |-> Some(d), ws |-> None]

WorkspaceDep(w) ==
    [tag |-> "Workspace", simple |-> None, detailed |-> None, ws |-> Some(w)]

\* Dependency::parse: a dependency on `name` from `source_id`, everything else default
Dependency_parse(name, version, source_id) ==
    [name |-> name, source_id |-> source_id, version_req |-> version,
     features |-> <<>>, default_features |-> TRUE, optional |-> FALSE,
     platform |-> None, registry_id |-> None, kind |-> "Normal",
     explicit_name_in_toml |-> None, public |-> FALSE, artifact |-> None]

\* Dependency::parse rejects a version requirement semver cannot parse
version_req_ok(version) == version # Some(VersionInvalid)

\* Dependency::name_in_toml
name_in_toml_of(d) == UnwrapOr(d.explicit_name_in_toml, d.name)

\* the closed set of artifact kinds Artifact::parse accepts
ArtifactKinds == {"bin", "cdylib", "staticlib", "bin:name"}

Artifact_parse_ok(artifact) == \A i \in 1..Len(artifact) : artifact[i] \in ArtifactKinds

\* Artifact::parse: `target = "target"` is the build-dependency sentinel
Artifact_parse(artifact, is_lib, target) ==
    [kinds |-> artifact, is_lib |-> is_lib,
     target |-> IF target = None THEN None
                ELSE IF target = Some("target")
                     THEN Some("BuildDependencyAssumeTarget")
                     ELSE Some("Force")]

-----------------------------------------------------------------------------
(* DetailedTomlDependency::to_dependency *)

Failed(err, ws, np) ==
    [ok |-> FALSE, err |-> Some(err), dep |-> None, warnings |-> ws, nested_paths |-> np]

Resolved(d, ws, np) ==
    [ok |-> TRUE, err |-> None, dep |-> Some(d), warnings |-> ws, nested_paths |-> np]

\* missing_requirement with the test of `git` inverted
missing_requirement_git_inverted(d) == IsNone(d.version) /\ IsNone(d.path) /\ IsSome(d.git)

\* the declaration names no version, no path and no git repository
missing_requirement(d) == IsNone(d.version) /\ IsNone(d.path) /\ IsNone(d.git)

\* the first of branch, tag, rev that is set, by its key name
git_only_key(d) ==
    IF IsSome(d.branch) THEN Some("branch")
    ELSE IF IsSome(d.tag) THEN Some("tag")
    ELSE IF IsSome(d.rev) THEN Some("rev")
    ELSE None

\* feature_error without the test for slashes
feature_error_no_slash(feature, name) ==
    IF StartsWith(feature, DepPrefix) THEN Some(Error("FeatureDepPrefix", feature, name))
    ELSE None

\* the check of one feature string: slashes first, then the dep: prefix
feature_error(feature, name) ==
    IF Contains(feature, "/") THEN Some(Error("FeatureSlash", feature, name))
    ELSE IF StartsWith(feature, DepPrefix) THEN Some(Error("FeatureDepPrefix", feature, name))
    ELSE None

RECURSIVE first_feature_error(_, _, _)
first_feature_error(features, i, name) ==
    IF i > Len(features) THEN None
    ELSE IF IsSome(feature_error(features[i], name)) THEN feature_error(features[i], name)
    ELSE first_feature_error(features, i + 1, name)

\* the loop over self.features
features_check(d, name) ==
    IF IsSome(d.features) THEN first_feature_error(Unwrap(d.features), 1, name) ELSE None

\* source_conflict without the arm for registry with registry-index
source_conflict_git_only(d) ==
    IF IsSome(d.git) /\ (IsSome(d.registry) \/ IsSome(d.registry_index))
    THEN Some("git-or-registry")
    ELSE None

\* source_conflict without the arm for git with registry or registry-index
source_conflict_registry_only(d) ==
    IF IsSome(d.registry) /\ IsSome(d.registry_index)
    THEN Some("registry-or-registry-index")
    ELSE None

\* the first two arms of the match on (git, path, registry, registry_index)
source_conflict(d) ==
    IF IsSome(d.git) /\ (IsSome(d.registry) \/ IsSome(d.registry_index))
    THEN Some("git-or-registry")
    ELSE IF IsSome(d.registry) /\ IsSome(d.registry_index)
    THEN Some("registry-or-registry-index")
    ELSE None

\* n_details counting branch and tag only
n_details_without_rev(d) ==
    (IF IsSome(d.branch) THEN 1 ELSE 0) + (IF IsSome(d.tag) THEN 1 ELSE 0)

n_details(d) ==
    (IF IsSome(d.branch) THEN 1 ELSE 0) + (IF IsSome(d.tag) THEN 1 ELSE 0)
        + (IF IsSome(d.rev) THEN 1 ELSE 0)

git_reference(d) ==
    IF IsSome(d.branch) THEN GitRef("Branch", Unwrap(d.branch))
    ELSE IF IsSome(d.tag) THEN GitRef("Tag", Unwrap(d.tag))
    ELSE IF IsSome(d.rev) THEN GitRef("Rev", Unwrap(d.rev))
    ELSE DefaultBranch

SourceOk(source_id, ws, np) ==
    [ok |-> TRUE, err |-> None, source_id |-> Some(source_id), warnings |-> ws,
     nested_paths |-> np]

SourceFailed(err, ws, np) ==
    [ok |-> FALSE, err |-> Some(err), source_id |-> None, warnings |-> ws,
     nested_paths |-> np]

\* the arm of the match for a git dependency
git_source(d, name, ws, np) ==
    IF IsSome(d.path)
    THEN SourceFailed(Error("FieldConflict", <<"git-or-path">>, name), ws, np)
    ELSE IF n_details(d) > 1
    THEN SourceFailed(Error("FieldConflict", <<"branch-tag-rev">>, name), ws, np)
    ELSE IF ~into_url_ok(Unwrap(d.git))
    THEN SourceFailed(Error("InvalidUrl", <<"git">>, name), ws, np)
    ELSE SourceOk(SourceId_for_git(Unwrap(d.git), git_reference(d)),
                  IF IsSome(Unwrap(d.git).fragment)
                  THEN Append(ws, Warning("GitUrlFragment", <<Unwrap(Unwrap(d.git).fragment)>>, name))
                  ELSE ws,
                  np)

\* the arm for a path dependency, pushing the path it normalized
path_source_pushes_normalized(d, c, ws, np) ==
    SourceOk(IF is_path(c.source_id)
             THEN SourceId_for_path(normalize_path(Join(c.root, Unwrap(d.path))))
             ELSE c.source_id,
             ws, Append(np, IF is_path(c.source_id)
                            THEN normalize_path(Join(c.root, Unwrap(d.path)))
                            ELSE Unwrap(d.path)))

\* the arm of the match for a path dependency
path_source(d, c, ws, np) ==
    SourceOk(IF is_path(c.source_id)
             THEN SourceId_for_path(normalize_path(Join(c.root, Unwrap(d.path))))
             ELSE c.source_id,
             ws, Append(np, Unwrap(d.path)))

\* let new_source_id = match (git, path, registry, registry_index) { .. }
new_source_id(d, name, c, ws, np) ==
    IF IsSome(source_conflict(d))
    THEN SourceFailed(Error("FieldConflict", <<Unwrap(source_conflict(d))>>, name), ws, np)
    ELSE IF IsSome(d.git) THEN git_source(d, name, ws, np)
    ELSE IF IsSome(d.path) THEN path_source(d, c, ws, np)
    ELSE IF IsSome(d.registry)
    THEN IF alt_registry_ok(Unwrap(d.registry))
         THEN SourceOk(SourceId_alt_registry(Unwrap(d.registry)), ws, np)
         ELSE SourceFailed(Error("UnknownRegistry", <<Unwrap(d.registry)>>, name), ws, np)
    ELSE IF IsSome(d.registry_index)
    THEN IF into_url_ok(Unwrap(d.registry_index))
         THEN SourceOk(SourceId_for_registry(Unwrap(d.registry_index)), ws, np)
         ELSE SourceFailed(Error("InvalidUrl", <<"registry-index">>, name), ws, np)
    ELSE SourceOk(SourceId_crates_io, ws, np)

\* default_features.or(default_features2).unwrap_or(true)
default_features_of(d) == UnwrapOr(OrElse(d.default_features, d.default_features2), TRUE)

\* the registry id set after the match, from registry or registry-index
registry_id_of(d) ==
    IF IsSome(d.registry_index) THEN Some(SourceId_for_registry(Unwrap(d.registry_index)))
    ELSE IF IsSome(d.registry) THEN Some(SourceId_alt_registry(Unwrap(d.registry)))
    ELSE None

\* the dependency as built between Dependency::parse and the public check
built_dependency(d, name, c, kind, source_id) ==
    [Dependency_parse(UnwrapOr(d.package, name), d.version, source_id) EXCEPT
        !.features = UnwrapOr(d.features, <<>>),
        !.default_features = default_features_of(d),
        !.optional = UnwrapOr(d.optional, FALSE),
        !.platform = c.platform,
        !.registry_id = registry_id_of(d),
        !.kind = UnwrapOr(kind, "Normal"),
        !.explicit_name_in_toml = IF IsSome(d.package) THEN Some(name) ELSE None]

\* public_check without the test of the dependency kind
public_check_any_kind(d, c, built) ==
    IF IsNone(d.public) THEN None
    ELSE IF ~require_ok(c.features, "public-dependency")
    THEN Some(Error("GateNotEnabled", <<"public-dependency">>, built.name))
    ELSE None

\* the public specifier: gated, and for regular dependencies only
public_check(d, c, built) ==
    IF IsNone(d.public) THEN None
    ELSE IF ~require_ok(c.features, "public-dependency")
    THEN Some(Error("GateNotEnabled", <<"public-dependency">>, built.name))
    ELSE IF built.kind # "Normal"
    THEN Some(Error("PublicNotNormal", <<built.kind>>, built.name))
    ELSE None

\* artifact_check naming target before lib
artifact_check_target_first(d, name, built) ==
    IF IsSome(d.artifact)
    THEN IF ~Artifact_parse_ok(Unwrap(d.artifact))
         THEN Some(Error("InvalidArtifact", Unwrap(d.artifact), name))
         ELSE IF built.kind # "Build"
                 /\ Artifact_parse(Unwrap(d.artifact), UnwrapOr(d.lib, FALSE), d.target).target
                      = Some("BuildDependencyAssumeTarget")
         THEN Some(Error("TargetSentinelOutsideBuild", <<"target">>, name))
         ELSE None
    ELSE IF IsSome(d.target) THEN Some(Error("SpecifierWithoutArtifact", <<"target">>, name))
    ELSE IF IsSome(d.lib) THEN Some(Error("SpecifierWithoutArtifact", <<"lib">>, name))
    ELSE None

\* the artifact, lib and target specifiers
artifact_check(d, name, built) ==
    IF IsSome(d.artifact)
    THEN IF ~Artifact_parse_ok(Unwrap(d.artifact))
         THEN Some(Error("InvalidArtifact", Unwrap(d.artifact), name))
         ELSE IF built.kind # "Build"
                 /\ Artifact_parse(Unwrap(d.artifact), UnwrapOr(d.lib, FALSE), d.target).target
                      = Some("BuildDependencyAssumeTarget")
         THEN Some(Error("TargetSentinelOutsideBuild", <<"target">>, name))
         ELSE None
    ELSE IF IsSome(d.lib) THEN Some(Error("SpecifierWithoutArtifact", <<"lib">>, name))
    ELSE IF IsSome(d.target) THEN Some(Error("SpecifierWithoutArtifact", <<"target">>, name))
    ELSE None

\* to_dependency from Dependency::parse to the end
finish_dependency(d, name, c, kind, source_id, ws, np) ==
    LET w3 == IF IsSome(d.default_features) /\ IsSome(d.default_features2)
              THEN Append(ws, Warning("DeprecatedAlias", <<"default-features">>, name))
              ELSE ws
        built == built_dependency(d, name, c, kind, source_id)
    IN  IF ~version_req_ok(d.version)
        THEN Failed(Error("InvalidVersionReq", Unwrap(d.version), name), ws, np)
        ELSE IF IsSome(d.registry) /\ ~alt_registry_ok(Unwrap(d.registry))
        THEN Failed(Error("UnknownRegistry", <<Unwrap(d.registry)>>, name), w3, np)
        ELSE IF IsSome(d.registry_index) /\ ~into_url_ok(Unwrap(d.registry_index))
        THEN Failed(Error("InvalidUrl", <<"registry-index">>, name), w3, np)
        ELSE IF IsSome(public_check(d, c, built))
        THEN Failed(Unwrap(public_check(d, c, built)), w3, np)
        ELSE IF IsSome(artifact_check(d, name, built))
        THEN Failed(Unwrap(artifact_check(d, name, built)), w3, np)
        ELSE Resolved([built EXCEPT
                          !.public = UnwrapOr(d.public, FALSE),
                          !.artifact = IF IsSome(d.artifact)
                                       THEN Some(Artifact_parse(Unwrap(d.artifact),
                                                                UnwrapOr(d.lib, FALSE), d.target))
                                       ELSE None],
                      w3, np)

\* DetailedTomlDependency::to_dependency(name_in_toml, cx, kind), on the
\* warnings and nested paths accumulated so far
detailed_to_dependency(d, name, c, kind, ws, np) ==
    LET w1 == IF missing_requirement(d)
              THEN Append(ws, Warning("MissingRequirement", <<>>, name))
              ELSE ws
        w2 == IF IsSome(d.version) /\ Contains(Unwrap(d.version), "+")
              THEN Append(w1, Warning("SemverMetadata", Unwrap(d.version), name))
              ELSE w1
    IN  IF IsNone(d.git) /\ IsSome(git_only_key(d))
        THEN Failed(Error("GitOnlyKey", <<Unwrap(git_only_key(d))>>, name), w2, np)
        ELSE IF IsSome(features_check(d, name))
        THEN Failed(Unwrap(features_check(d, name)), w2, np)
        ELSE LET src == new_source_id(d, name, c, w2, np)
             IN  IF ~src.ok
                 THEN Failed(Unwrap(src.err), src.warnings, src.nested_paths)
                 ELSE finish_dependency(d, name, c, kind, Unwrap(src.source_id),
                                        src.warnings, src.nested_paths)

\* to_dependency building the detailed form of a bare string without its version
to_dependency_version_dropped(td, name, c, kind, ws, np) ==
    IF td.tag = "Simple"
    THEN detailed_to_dependency(DetailedDefault, name, c, kind, ws, np)
    ELSE detailed_to_dependency(Unwrap(td.detailed), name, c, kind, ws, np)

\* TomlDependency::to_dependency: Simple(v) is Detailed { version: v, ..default }
to_dependency(td, name, c, kind, ws, np) ==
    IF td.tag = "Simple"
    THEN detailed_to_dependency([DetailedDefault EXCEPT !.version = td.simple],
                                name, c, kind, ws, np)
    ELSE detailed_to_dependency(Unwrap(td.detailed), name, c, kind, ws, np)

-----------------------------------------------------------------------------
(* TomlProfile *)

ScalarKnobs ==
    {"opt_level", "lto", "codegen_backend", "codegen_units", "debug", "split_debuginfo",
     "debug_assertions", "rpath", "panic", "overflow_checks", "incremental", "dir_name",
     "inherits", "strip", "rustflags"}

\* TomlProfile::default()
EmptyProfile ==
    [opt_level |-> None, lto |-> None, codegen_backend |-> None, codegen_units |-> None,
     debug |-> None, split_debuginfo |-> None, debug_assertions |-> None, rpath |-> None,
     panic |-> None, overflow_checks |-> None, incremental |-> None, dir_name |-> None,
     inherits |-> None, strip |-> None, rustflags |-> None,
     package |-> None, build_override |-> None]

\* ProfilePackageSpec in its derived order: Spec(..) before All
PackageSpecOrder == <<"foo", "*">>

PackageSpecs == {PackageSpecOrder[i] : i \in 1..Len(PackageSpecOrder)}

\* the keys of a package map as BTreeMap iterates them
RECURSIVE KeysInOrder(_, _)
KeysInOrder(map, i) ==
    IF i > Len(PackageSpecOrder) THEN <<>>
    ELSE IF PackageSpecOrder[i] \in DOMAIN map
         THEN <<PackageSpecOrder[i]>> \o KeysInOrder(map, i + 1)
         ELSE KeysInOrder(map, i + 1)

\* if let Some(v) = &profile.k { self.k = Some(v.clone()) }
merge_field(mine, theirs) == IF IsSome(theirs) THEN theirs ELSE mine

\* merge, from opt_level to rustflags
merge_scalars(self, profile) ==
    [self EXCEPT
        !.opt_level = merge_field(@, profile.opt_level),
        !.lto = merge_field(@, profile.lto),
        !.codegen_backend = merge_field(@, profile.codegen_backend),
        !.codegen_units = merge_field(@, profile.codegen_units),
        !.debug = merge_field(@, profile.debug),
        !.debug_assertions = merge_field(@, profile.debug_assertions),
        !.split_debuginfo = merge_field(@, profile.split_debuginfo),
        !.rpath = merge_field(@, profile.rpath),
        !.panic = merge_field(@, profile.panic),
        !.overflow_checks = merge_field(@, profile.overflow_checks),
        !.incremental = merge_field(@, profile.incremental),
        !.rustflags = merge_field(@, profile.rustflags)]

\* merge_tail with dir_name written to inherits
merge_tail_dir_name_to_inherits(self, profile) ==
    [self EXCEPT
        !.inherits = merge_field(merge_field(@, profile.inherits), profile.dir_name),
        !.strip = merge_field(@, profile.strip)]

\* merge, the last three fields: inherits, dir_name, strip
merge_tail(self, profile) ==
    [self EXCEPT
        !.inherits = merge_field(@, profile.inherits),
        !.dir_name = merge_field(@, profile.dir_name),
        !.strip = merge_field(@, profile.strip)]

RECURSIVE merge(_, _)
RECURSIVE merge_package_entries(_, _, _)

\* merge_package_entry inserting the other entry over an existing one
merge_package_entry_overwrite(self_package, spec, other_pkg_profile) ==
    IF spec \in DOMAIN self_package
    THEN [self_package EXCEPT ![spec] = other_pkg_profile]
    ELSE [k \in DOMAIN self_package \cup {spec} |->
             IF k = spec THEN other_pkg_profile ELSE self_package[k]]

\* match self_package.get_mut(spec) { Some(p) => p.merge(..), None => insert }
merge_package_entry(self_package, spec, other_pkg_profile) ==
    IF spec \in DOMAIN self_package
    THEN [self_package EXCEPT ![spec] = merge(@, other_pkg_profile)]
    ELSE [k \in DOMAIN self_package \cup {spec} |->
             IF k = spec THEN other_pkg_profile ELSE self_package[k]]

\* for (spec, other_pkg_profile) in other_package { .. }
merge_package_entries(self_package, other_package, keys) ==
    IF keys = <<>> THEN self_package
    ELSE merge_package_entries(
             merge_package_entry(self_package, Head(keys), other_package[Head(keys)]),
             other_package, Tail(keys))

\* merge_package leaving a profile without a package map without one
merge_package_none_kept(self, profile) ==
    IF IsSome(profile.package) /\ IsSome(self.package)
    THEN [self EXCEPT !.package =
             Some(merge_package_entries(Unwrap(self.package), Unwrap(profile.package),
                                        KeysInOrder(Unwrap(profile.package), 1)))]
    ELSE self

\* merge, the package map
merge_package(self, profile) ==
    IF IsSome(profile.package)
    THEN IF IsSome(self.package)
         THEN [self EXCEPT !.package =
                  Some(merge_package_entries(Unwrap(self.package), Unwrap(profile.package),
                                             KeysInOrder(Unwrap(profile.package), 1)))]
         ELSE [self EXCEPT !.package = profile.package]
    ELSE self

\* merge_build_override cloning the whole profile where self has no build-override
merge_build_override_whole(self, profile) ==
    IF IsSome(profile.build_override)
    THEN IF IsSome(self.build_override)
         THEN [self EXCEPT !.build_override =
                  Some(merge(Unwrap(self.build_override), Unwrap(profile.build_override)))]
         ELSE [self EXCEPT !.build_override = Some(profile)]
    ELSE self

\* merge, the build-override
merge_build_override(self, profile) ==
    IF IsSome(profile.build_override)
    THEN IF IsSome(self.build_override)
         THEN [self EXCEPT !.build_override =
                  Some(merge(Unwrap(self.build_override), Unwrap(profile.build_override)))]
         ELSE [self EXCEPT !.build_override = profile.build_override]
    ELSE self

\* TomlProfile::merge(&mut self, profile): the value of self after the call
merge(self, profile) ==
    merge_tail(
        merge_build_override(
            merge_package(merge_scalars(self, profile), profile), profile), profile)

-----------------------------------------------------------------------------
(* TomlProfile::validate *)

LowerCase ==
    <<"a", "b", "c", "d", "e", "f", "g", "h", "i", "j", "k", "l", "m",
      "n", "o", "p", "q", "r", "s", "t", "u", "v", "w", "x", "y", "z">>

UpperCase ==
    <<"A", "B", "C", "D", "E", "F", "G", "H", "I", "J", "K", "L", "M",
      "N", "O", "P", "Q", "R", "S", "T", "U", "V", "W", "X", "Y", "Z">>

AsciiLetters == {LowerCase[i] : i \in DOMAIN LowerCase} \cup {UpperCase[i] : i \in DOMAIN UpperCase}

AsciiDigits == {"0", "1", "2", "3", "4", "5", "6", "7", "8", "9"}

\* letters outside ASCII, in lower case already
OtherLetters == {"é"}

\* char::is_alphanumeric
is_alphanumeric(ch) == ch \in AsciiLetters \cup AsciiDigits \cup OtherLetters

\* char::is_ascii_alphanumeric
is_ascii_alphanumeric(ch) == ch \in AsciiLetters \cup AsciiDigits

\* str::to_lowercase, a character at a time
to_lowercase(name) ==
    [i \in DOMAIN name |->
        IF \E j \in DOMAIN UpperCase : UpperCase[j] = name[i]
        THEN LowerCase[CHOOSE j \in DOMAIN UpperCase : UpperCase[j] = name[i]]
        ELSE name[i]]

\* the outcome of a validation: Ok(()) or the error, and the warnings so far
Valid(ws) == [ok |-> TRUE, err |-> None, warnings |-> ws]

Invalid(err, ws) == [ok |-> FALSE, err |-> Some(err), warnings |-> ws]

ReservedProfileNames ==
    {<<"b", "u", "i", "l", "d">>, <<"c", "h", "e", "c", "k">>, <<"c", "l", "e", "a", "n">>,
     <<"c", "o", "n", "f", "i", "g">>, <<"f", "e", "t", "c", "h">>, <<"f", "i", "x">>,
     <<"i", "n", "s", "t", "a", "l", "l">>, <<"m", "e", "t", "a", "d", "a", "t", "a">>,
     <<"p", "a", "c", "k", "a", "g", "e">>, <<"p", "u", "b", "l", "i", "s", "h">>,
     <<"r", "e", "p", "o", "r", "t">>, <<"r", "o", "o", "t">>, <<"r", "u", "n">>,
     <<"r", "u", "s", "t">>, <<"r", "u", "s", "t", "c">>,
     <<"r", "u", "s", "t", "d", "o", "c">>, <<"t", "a", "r", "g", "e", "t">>,
     <<"t", "m", "p">>, <<"u", "n", "i", "n", "s", "t", "a", "l", "l">>}

NameDebug == <<"d", "e", "b", "u", "g">>

NameBuildOverride == <<"b", "u", "i", "l", "d", "-", "o", "v", "e", "r", "r", "i", "d", "e">>

NameCargo == <<"c", "a", "r", "g", "o">>

NameDoc == <<"d", "o", "c">>

NameTest == <<"t", "e", "s", "t">>

NameBench == <<"b", "e", "n", "c", "h">>

\* the first character of the name that is not a letter, a digit, '_' or '-'
RECURSIVE first_invalid_char(_, _)
first_invalid_char(name, i) ==
    IF i > Len(name) THEN None
    ELSE IF ~is_alphanumeric(name[i]) /\ name[i] # "_" /\ name[i] # "-" THEN Some(name[i])
    ELSE first_invalid_char(name, i + 1)

\* validate_name comparing the name as written, not its lower-cased form
validate_name_as_written(name) ==
    IF IsSome(first_invalid_char(name, 1))
    THEN Some(Error("InvalidCharacter", first_invalid_char(name, 1), name))
    ELSE IF name = NameDebug
    THEN Some(Error("ReservedName", <<"use dev">>, name))
    ELSE IF name = NameBuildOverride
    THEN Some(Error("ReservedName", <<"use build-override tables">>, name))
    ELSE IF name \in ReservedProfileNames \/ StartsWith(name, NameCargo)
    THEN Some(Error("ReservedName", <<"choose a different name">>, name))
    ELSE None

\* TomlProfile::validate_name
validate_name(name) ==
    LET lower_name == to_lowercase(name)
    IN  IF IsSome(first_invalid_char(name, 1))
        THEN Some(Error("InvalidCharacter", first_invalid_char(name, 1), name))
        ELSE IF lower_name = NameDebug
        THEN Some(Error("ReservedName", <<"use dev">>, name))
        ELSE IF lower_name = NameBuildOverride
        THEN Some(Error("ReservedName", <<"use build-override tables">>, name))
        ELSE IF lower_name \in ReservedProfileNames \/ StartsWith(lower_name, NameCargo)
        THEN Some(Error("ReservedName", <<"choose a different name">>, name))
        ELSE None

\* validate_profile without the gate on rustflags
validate_profile_rustflags_open(self, name, features) ==
    IF IsSome(self.codegen_backend) /\ ~require_ok(features, "codegen-backend")
    THEN Some(Error("GateNotEnabled", <<"codegen-backend">>, name))
    ELSE IF IsSome(self.codegen_backend)
            /\ \E i \in DOMAIN Unwrap(self.codegen_backend) :
                  LET c == Unwrap(self.codegen_backend)[i]
                  IN  ~is_ascii_alphanumeric(c) /\ c # "_"
    THEN Some(Error("InvalidBackendName", Unwrap(self.codegen_backend), name))
    ELSE None

\* TomlProfile::validate_profile: the shallow check of a profile or an override
validate_profile(self, name, features) ==
    IF IsSome(self.codegen_backend) /\ ~require_ok(features, "codegen-backend")
    THEN Some(Error("GateNotEnabled", <<"codegen-backend">>, name))
    ELSE IF IsSome(self.codegen_backend)
            /\ \E i \in DOMAIN Unwrap(self.codegen_backend) :
                  LET c == Unwrap(self.codegen_backend)[i]
                  IN  ~is_ascii_alphanumeric(c) /\ c # "_"
    THEN Some(Error("InvalidBackendName", Unwrap(self.codegen_backend), name))
    ELSE IF IsSome(self.rustflags) /\ ~require_ok(features, "profile-rustflags")
    THEN Some(Error("GateNotEnabled", <<"profile-rustflags">>, name))
    ELSE None

\* validate_override without the test of rpath
validate_override_without_rpath(self, which) ==
    IF IsSome(self.package) THEN Some(Error("NestedOverride", <<"package">>, <<which>>))
    ELSE IF IsSome(self.build_override)
    THEN Some(Error("NestedOverride", <<"build-override">>, <<which>>))
    ELSE IF IsSome(self.panic) THEN Some(Error("ForbiddenInOverride", <<"panic">>, <<which>>))
    ELSE IF IsSome(self.lto) THEN Some(Error("ForbiddenInOverride", <<"lto">>, <<which>>))
    ELSE None

\* TomlProfile::validate_override: what only an override is checked for
validate_override(self, which) ==
    IF IsSome(self.package) THEN Some(Error("NestedOverride", <<"package">>, <<which>>))
    ELSE IF IsSome(self.build_override)
    THEN Some(Error("NestedOverride", <<"build-override">>, <<which>>))
    ELSE IF IsSome(self.panic) THEN Some(Error("ForbiddenInOverride", <<"panic">>, <<which>>))
    ELSE IF IsSome(self.lto) THEN Some(Error("ForbiddenInOverride", <<"lto">>, <<which>>))
    ELSE IF IsSome(self.rpath) THEN Some(Error("ForbiddenInOverride", <<"rpath">>, <<which>>))
    ELSE None

\* the two checks validate makes of an override node
validate_node(profile, which, name, features) ==
    OrElse(validate_override(profile, which), validate_profile(profile, name, features))

\* the loop of validate over the package map, in key order
RECURSIVE validate_packages(_, _, _, _)
validate_packages(packages, keys, name, features) ==
    IF keys = <<>> THEN None
    ELSE LET e == validate_node(packages[Head(keys)], "package",
                                name \o <<".package.", Head(keys)>>, features)
         IN  IF IsSome(e) THEN e
             ELSE validate_packages(packages, Tail(keys), name, features)

\* validate, up to the end of the loop over the package map
validate_overrides(self, name, features) ==
    LET own == validate_profile(self, name, features)
        bo == IF IsSome(self.build_override)
              THEN validate_node(Unwrap(self.build_override), "build-override",
                                 name \o <<".build-override">>, features)
              ELSE None
        pk == IF IsSome(self.package)
              THEN validate_packages(Unwrap(self.package),
                                     KeysInOrder(Unwrap(self.package), 1), name, features)
              ELSE None
    IN  OrElse(own, OrElse(bo, pk))

\* the warnings validate pushes for the profiles doc, test and bench
name_warnings(self, name, ws) ==
    IF name = NameDoc THEN Append(ws, Warning("DeprecatedProfile", <<"doc">>, name))
    ELSE IF (name = NameTest \/ name = NameBench) /\ IsSome(self.panic)
    THEN Append(ws, Warning("PanicIgnored", <<"panic">>, name))
    ELSE ws

\* validate without the refusal of dir-name
validate_dir_name_allowed(self, name, features, ws) ==
    IF IsSome(validate_overrides(self, name, features))
    THEN Invalid(Unwrap(validate_overrides(self, name, features)), ws)
    ELSE IF IsSome(validate_name(name)) THEN Invalid(Unwrap(validate_name(name)), ws)
    ELSE IF self.inherits = Some("debug")
    THEN Invalid(Error("InheritsDebug", <<"debug">>, name), ws)
    ELSE IF IsSome(self.panic) /\ self.panic # Some("unwind") /\ self.panic # Some("abort")
    THEN Invalid(Error("InvalidPanic", <<Unwrap(self.panic)>>, name), name_warnings(self, name, ws))
    ELSE IF IsSome(self.lto) /\ Unwrap(self.lto).tag = "String"
            /\ Unwrap(self.lto).s \in {"true", "false"}
    THEN Invalid(Error("InvalidLto", <<Unwrap(self.lto).s>>, name), name_warnings(self, name, ws))
    ELSE Valid(name_warnings(self, name, ws))

\* TomlProfile::validate
validate(self, name, features, ws) ==
    IF IsSome(validate_overrides(self, name, features))
    THEN Invalid(Unwrap(validate_overrides(self, name, features)), ws)
    ELSE IF IsSome(validate_name(name)) THEN Invalid(Unwrap(validate_name(name)), ws)
    ELSE IF IsSome(self.dir_name)
    THEN Invalid(Error("DirNameNotAllowed", <<Unwrap(self.dir_name)>>, name), ws)
    ELSE IF self.inherits = Some("debug")
    THEN Invalid(Error("InheritsDebug", <<"debug">>, name), ws)
    ELSE IF IsSome(self.panic) /\ self.panic # Some("unwind") /\ self.panic # Some("abort")
    THEN Invalid(Error("InvalidPanic", <<Unwrap(self.panic)>>, name), name_warnings(self, name, ws))
    ELSE IF IsSome(self.lto) /\ Unwrap(self.lto).tag = "String"
            /\ Unwrap(self.lto).s \in {"true", "false"}
    THEN Invalid(Error("InvalidLto", <<Unwrap(self.lto).s>>, name), name_warnings(self, name, ws))
    ELSE Valid(name_warnings(self, name, ws))

-----------------------------------------------------------------------------
(* MaybeWorkspace, InheritableFields, WorkspaceConfig *)

\* MaybeWorkspace::Defined(value)
Defined(value) == [tag |-> "Defined", value |-> Some(value), workspace |-> None]

\* MaybeWorkspace::Workspace(TomlWorkspaceField { workspace })
WorkspaceField(workspace) == [tag |-> "Workspace", value |-> None, workspace |-> Some(workspace)]

\* the fields of [package] that can be inherited, in the order the pass resolves them
InheritableOrder ==
    <<"version", "edition", "rust_version", "exclude", "include", "description", "homepage",
      "documentation", "readme", "authors", "license", "license_file", "repository",
      "keywords", "categories", "badges", "publish">>

InheritableKeys == {InheritableOrder[i] : i \in DOMAIN InheritableOrder}

\* the fields ManifestMetadata is built from, in the order of the struct expression
MetadataOrder ==
    <<"description", "homepage", "documentation", "readme", "authors", "license",
      "license_file", "repository", "keywords", "categories", "badges">>

\* the label resolve is given for a field
label_of(field) == IF field = "license_file" THEN "license" ELSE field

\* InheritableFields::default()
InheritableDefault ==
    [k \in InheritableKeys \cup {"dependencies", "ws_root"} |->
        IF k = "ws_root" THEN <<>> ELSE None]

\* WorkspaceConfig::Root(..) and WorkspaceConfig::Member { root }
RootConfig(inheritable) == [kind |-> "Root", inheritable |-> Some(inheritable), root |-> None]

MemberConfig(root) == [kind |-> "Member", inheritable |-> None, root |-> root]

ManifestFile == <<"Cargo.toml">>

\* an outcome of get_ws: Ok(fields) or the error, and whether a document was read
Loaded(fields, n) == [ok |-> TRUE, err |-> None, fields |-> Some(fields), loads |-> n]

LoadFailed(kind, n) ==
    [ok |-> FALSE, err |-> Some(Error(kind, <<>>, <<>>)), fields |-> None, loads |-> n]

\* inheritable_from_path: read the document at the path, it must be a workspace root
inheritable_from_path(e, resolved_path) ==
    IF resolved_path # e.root_path \o ManifestFile \/ e.root_doc = "unreadable"
    THEN LoadFailed("RootUnreadable", 1)
    ELSE IF e.root_doc = "member" THEN LoadFailed("NotARoot", 1)
    ELSE Loaded(Unwrap(e.inheritable), 1)

\* get_ws
get_ws(e, root, wc) ==
    IF wc.kind = "Root" THEN Loaded(Unwrap(wc.inheritable), 0)
    ELSE IF IsSome(wc.root)
    THEN inheritable_from_path(e, normalize_path(Join(root, Unwrap(wc.root)) \o ManifestFile))
    ELSE IF e.find_root = "error" THEN LoadFailed("FindRootFailed", 0)
    ELSE IF e.find_root = "none" THEN LoadFailed("NoWorkspaceRoot", 0)
    ELSE inheritable_from_path(e, e.root_path \o ManifestFile)

\* try_borrow_with that calls get_ws whether or not the cell is filled
inherit_always_loads(st, c) ==
    LET r == get_ws(c.env, c.root, c.workspace_config)
    IN  [ok |-> r.ok, err |-> r.err, fields |-> r.fields,
         st |-> [st EXCEPT !.cell = IF r.ok THEN r.fields ELSE @,
                           !.loads = @ + r.loads,
                           !.requests = @ + 1]]

\* inherit(): inherit_cell.try_borrow_with(|| get_ws(..)).  `st` is the state
\* local to the pass: the cell, the counts of loads and requests, cx.deps,
\* the warnings and the nested paths.
inherit(st, c) ==
    IF IsSome(st.cell)
    THEN [ok |-> TRUE, err |-> None, fields |-> st.cell,
          st |-> [st EXCEPT !.requests = @ + 1]]
    ELSE Bind(get_ws(c.env, c.root, c.workspace_config), LAMBDA r :
             [ok |-> r.ok, err |-> r.err, fields |-> r.fields,
              st |-> [st EXCEPT !.cell = IF r.ok THEN r.fields ELSE None,
                                !.loads = @ + r.loads,
                                !.requests = @ + 1]])

\* the path from `base` to `path`, both absolute and normalized
RECURSIVE diff_paths(_, _)
diff_paths(path, base) ==
    IF path # <<>> /\ base # <<>> /\ Head(path) = Head(base)
    THEN diff_paths(Tail(path), Tail(base))
    ELSE [i \in 1..Len(base) |-> ".."] \o path

\* resolve_relative_path: a path of the root document, seen from the package
resolve_relative_path(root_path, package_root, rel_path) ==
    diff_paths(normalize_path(Join(root_path, rel_path)), package_root)

\* default_readme_from_package_root: the README file of the directory, if it has one
default_readme_from_package_root(e, dir) ==
    IF dir = e.package_root THEN e.package_readme
    ELSE IF dir = e.root_path THEN e.root_readme
    ELSE None

\* readme_for_project, `default` being the README file of the directory
readme_for_project(default, readme) ==
    IF readme = None THEN default
    ELSE IF Unwrap(readme).tag = "Bool"
    THEN (IF Unwrap(readme).s = <<"true">> THEN Some(<<"README.md">>) ELSE None)
    ELSE Some(Unwrap(readme).s)

\* the getters of InheritableFields: readme and license_file are paths
inherited_value(fields, field, package_root, default) ==
    IF field = "readme"
    THEN IF readme_for_project(default, fields.readme) = None THEN None
         ELSE Some(Tagged("String", resolve_relative_path(fields.ws_root, package_root,
                                        Unwrap(readme_for_project(default, fields.readme)))))
    ELSE IF fields[field] = None THEN None
    ELSE IF field = "license_file"
    THEN Some(resolve_relative_path(fields.ws_root, package_root, Unwrap(fields[field])))
    ELSE fields[field]

\* an outcome of a resolve: Ok(value) or the error, and the cell afterwards
ResolveOk(value, st) == [ok |-> TRUE, err |-> None, value |-> Some(value), st |-> st]

ResolveErr(err, st) == [ok |-> FALSE, err |-> Some(err), value |-> None, st |-> st]

\* MaybeWorkspace::resolve with get_ws_field = || inherit()?.field()
MaybeWorkspace_resolve(mw, field, st, c) ==
    IF mw.tag = "Defined" THEN ResolveOk(Unwrap(mw.value), st)
    ELSE IF mw.workspace = Some(TRUE)
    THEN IF ~require_ok(c.features, "workspace-inheritance")
         THEN ResolveErr(Error("GateNotEnabled", <<"workspace-inheritance">>, <<label_of(field)>>), st)
         ELSE Bind(inherit(st, c), LAMBDA i :
                  IF ~i.ok
                  THEN ResolveErr(Error("InheritFailed", <<Unwrap(i.err).kind>>,
                                        <<label_of(field)>>), i.st)
                  ELSE Bind(inherited_value(Unwrap(i.fields), field, c.root,
                               default_readme_from_package_root(c.env, Unwrap(i.fields).ws_root)),
                            LAMBDA value :
                           IF value = None
                           THEN ResolveErr(Error("InheritFailed", <<"FieldNotDefined", field>>,
                                                 <<label_of(field)>>), i.st)
                           ELSE ResolveOk(Unwrap(value), i.st)))
    ELSE ResolveErr(Error("WorkspaceFalse", <<"package">>, <<label_of(field)>>), st)

-----------------------------------------------------------------------------
(* TomlDependency::resolve *)

\* add_features that puts the features of the entry before those of the root
add_features_local_first(d, features) ==
    [d EXCEPT !.features =
        IF IsSome(d.features) /\ IsSome(features)
        THEN Some(Unwrap(features) \o Unwrap(d.features))
        ELSE IF IsSome(d.features) THEN d.features
        ELSE features]

\* DetailedTomlDependency::add_features
add_features(d, features) ==
    [d EXCEPT !.features =
        IF IsSome(d.features) /\ IsSome(features)
        THEN Some(Unwrap(d.features) \o Unwrap(features))
        ELSE IF IsSome(d.features) THEN d.features
        ELSE features]

\* DetailedTomlDependency::update_optional
update_optional(d, optional) == [d EXCEPT !.optional = optional]

\* DetailedTomlDependency::resolve_path
resolve_path(d, root_path, package_root) ==
    IF IsSome(d.path)
    THEN [d EXCEPT !.path = Some(resolve_relative_path(root_path, package_root,
                                                       Unwrap(d.path)))]
    ELSE d

\* InheritableFields::get_dependency
get_dependency(fields, name) ==
    IF fields.dependencies = None
    THEN [ok |-> FALSE, cause |-> "DependenciesNotDefined", found |-> None]
    ELSE IF name \notin DOMAIN Unwrap(fields.dependencies)
    THEN [ok |-> FALSE, cause |-> "DependencyNotFound", found |-> None]
    ELSE [ok |-> TRUE, cause |-> "", found |-> Some(Unwrap(fields.dependencies)[name])]

\* what a { workspace = true } entry becomes, given the entry of the root document
inherited_dependency(w, found, fields, package_root) ==
    IF found.tag = "Simple"
    THEN IF IsSome(w.optional) \/ IsSome(w.features)
         THEN DetailedDep([DetailedDefault EXCEPT !.version = found.simple,
                                                  !.optional = w.optional,
                                                  !.features = w.features])
         ELSE found
    ELSE DetailedDep(resolve_path(update_optional(add_features(Unwrap(found.detailed),
                                                               w.features),
                                                  w.optional),
                                  fields.ws_root, package_root))

\* TomlDependency::resolve
TomlDependency_resolve(td, label, st, c) ==
    IF td.tag # "Workspace" THEN ResolveOk(td, st)
    ELSE IF ~Unwrap(td.ws).workspace
    THEN ResolveErr(Error("WorkspaceFalse", <<"dependencies">>, <<label>>), st)
    ELSE IF ~require_ok(c.features, "workspace-inheritance")
    THEN ResolveErr(Error("GateNotEnabled", <<"workspace-inheritance">>, <<label>>), st)
    ELSE Bind(inherit(st, c), LAMBDA i :
             IF ~i.ok
             THEN ResolveErr(Error("InheritFailed", <<Unwrap(i.err).kind>>, <<label>>), i.st)
             ELSE Bind(get_dependency(Unwrap(i.fields), label), LAMBDA g :
                      IF ~g.ok
                      THEN ResolveErr(Error("InheritFailed", <<g.cause>>, <<label>>), i.st)
                      ELSE ResolveOk(inherited_dependency(Unwrap(td.ws), Unwrap(g.found),
                                                          Unwrap(i.fields), c.root), i.st)))

-----------------------------------------------------------------------------
(* to_real_manifest: the dependency tables *)

\* the keys of a BTreeMap in the order it iterates them, given the order of all keys
OrderedKeys(map, order) == SelectSeq(order, LAMBDA k : k \in DOMAIN map)

EmptyMap == [k \in {} |-> None]

Insert(map, key, value) ==
    [k \in DOMAIN map \cup {key} |-> IF k = key THEN value ELSE map[k]]

\* dependency names, sorted
DepNameOrder == <<"a", "b", "bad name">>

\* validate_package_name accepts the name
validate_package_name_ok(name) == name \notin {"", "bad name"}

\* an unwrap() of an Err, an unreachable!()
Panic(what, about) == Error("Panic", <<what>>, about)

\* the record the model keeps of a call of to_dependency
Logged(st, table, name, decl, r) ==
    [st EXCEPT !.warnings = r.warnings,
               !.nested_paths = r.nested_paths,
               !.processed = Append(@, [table |-> table, name |-> name, decl |-> decl,
                                        ok |-> r.ok, err |-> r.err, dep |-> r.dep])]

\* the loop of process_dependencies
RECURSIVE process_entries(_, _, _, _, _, _, _)
process_entries(dependencies, names, kind, c, st, out, table) ==
    IF names = <<>> THEN ResolveOk(Some(out), st)
    ELSE Try(TomlDependency_resolve(dependencies[Head(names)], Head(names), st, c), LAMBDA res :
         Bind(to_dependency(Unwrap(res.value), Head(names), c, kind, res.st.warnings,
                            res.st.nested_paths), LAMBDA r :
         Bind(Logged(res.st, table, Head(names), Unwrap(res.value), r), LAMBDA st2 :
             IF ~r.ok THEN ResolveErr(Unwrap(r.err), st2)
             ELSE IF ~validate_package_name_ok(name_in_toml_of(Unwrap(r.dep)))
             THEN ResolveErr(Error("InvalidPackageName", <<"dependency name">>,
                                   <<Head(names)>>), st2)
             ELSE process_entries(dependencies, Tail(names), kind, c,
                                  [st2 EXCEPT !.deps = Append(@, Unwrap(r.dep))],
                                  Insert(out, Head(names), Unwrap(res.value)), table))))

Reverse(s) == [i \in 1..Len(s) |-> s[Len(s) + 1 - i]]

\* process_dependencies visiting the keys in descending order
process_dependencies_descending(new_deps, kind, c, st, table) ==
    IF new_deps = None THEN ResolveOk(None, st)
    ELSE process_entries(Unwrap(new_deps),
                         Reverse(OrderedKeys(Unwrap(new_deps), DepNameOrder)),
                         kind, c, st, EmptyMap, table)

\* process_dependencies
process_dependencies(new_deps, kind, c, st, table) ==
    IF new_deps = None THEN ResolveOk(None, st)
    ELSE process_entries(Unwrap(new_deps), OrderedKeys(Unwrap(new_deps), DepNameOrder),
                         kind, c, st, EmptyMap, table)

\* warn_on_deprecated, when both spellings of a table are present
warn_on_deprecated(st, both, new_path, name) ==
    IF both THEN [st EXCEPT !.warnings = Append(@, Warning("DeprecatedAlias", <<new_path>>, name))]
    ELSE st

\* platform names, sorted
PlatformOrder == <<"cfg(", "cfg(unix)", "cfg(windows)", "x86_64-pc-windows-msvc", "x86_64-unknown-linux-gnu">>

\* name.parse::<Platform>() succeeds
platform_parse_ok(name) == name # "cfg("

\* TomlPlatform
TomlPlatform(dependencies, build_dependencies, build_dependencies2, dev_dependencies, dev_dependencies2) ==
    [dependencies |-> dependencies, build_dependencies |-> build_dependencies,
     build_dependencies2 |-> build_dependencies2, dev_dependencies |-> dev_dependencies,
     dev_dependencies2 |-> dev_dependencies2]

\* process_dependencies(..).unwrap()
unwrapped(r) == IF r.ok THEN r ELSE ResolveErr(Panic(Unwrap(r.err).kind, Unwrap(r.err).about), r.st)

\* one turn of the loop over me.target
process_platform(name, platform, c, st) ==
    IF ~platform_parse_ok(name) THEN ResolveErr(Error("InvalidPlatform", <<name>>, <<>>), st)
    ELSE LET cp == [c EXCEPT !.platform = Some(name)]
         IN  Try(unwrapped(process_dependencies(platform.dependencies, None, cp, st,
                                                "target.dependencies")), LAMBDA d :
             Try(unwrapped(process_dependencies(
                     OrElse(platform.build_dependencies, platform.build_dependencies2),
                     Some("Build"), cp,
                     warn_on_deprecated(d.st,
                         IsSome(platform.build_dependencies)
                             /\ IsSome(platform.build_dependencies2),
                         "build-dependencies", name),
                     "target.build-dependencies")), LAMBDA b :
             Try(unwrapped(process_dependencies(
                     OrElse(platform.dev_dependencies, platform.dev_dependencies2),
                     Some("Development"), cp,
                     warn_on_deprecated(b.st,
                         IsSome(platform.dev_dependencies)
                             /\ IsSome(platform.dev_dependencies2),
                         "dev-dependencies", name),
                     "target.dev-dependencies")), LAMBDA v :
                 ResolveOk(TomlPlatform(Unwrap(d.value), Unwrap(b.value), None,
                                        Unwrap(v.value), None), v.st))))

\* TomlDependency::is_version_specified
is_version_specified(td) ==
    IF td.tag = "Detailed" THEN IsSome(Unwrap(td.detailed).version) ELSE TRUE

\* keys of [replace], sorted, and what PackageIdSpec::parse makes of them
ReplaceSpecOrder == <<"a:1.0.0", "b", "https://example.com/index#a:2.0.0", "not a spec">>

PackageIdSpec_parse(spec) ==
    IF spec = "a:1.0.0"
    THEN [ok |-> TRUE, name |-> "a", version |-> Some("1.0.0"), url |-> None]
    ELSE IF spec = "b" THEN [ok |-> TRUE, name |-> "b", version |-> None, url |-> None]
    ELSE IF spec = "https://example.com/index#a:2.0.0"
    THEN [ok |-> TRUE, name |-> "a", version |-> Some("2.0.0"),
          url |-> Some("https://example.com/index")]
    ELSE [ok |-> FALSE, name |-> "", version |-> None, url |-> None]

\* CRATES_IO_INDEX
CRATES_IO_INDEX == "https://github.com/rust-lang/crates.io-index"

\* if spec.url().is_none() { spec.set_url(CRATES_IO_INDEX) }
with_default_url(spec) == IF spec.url = None THEN [spec EXCEPT !.url = Some(CRATES_IO_INDEX)] ELSE spec

\* VersionReq::exact
VersionReq_exact(version) == <<"=", version>>

\* Dependency::lock_version: the requirement now asks for this one version
lock_version(d, version) == [d EXCEPT !.version_req = [locked |-> version, req |-> @]]

\* a replacement that keeps the requirement its declaration gave
not_locked(d, version) == d

\* dep.set_version_req(VersionReq::exact(version)).lock_version(version)
locked_to(d, version) == lock_version([d EXCEPT !.version_req = VersionReq_exact(version)], version)

\* TomlDependency::to_dependency where the entry was not resolved before
to_dependency_unresolved(td, name, c, kind, st, table) ==
    IF td.tag = "Workspace" THEN ResolveErr(Panic("unreachable", <<name>>), st)
    ELSE Bind(to_dependency(td, name, c, kind, st.warnings, st.nested_paths), LAMBDA r :
         Bind(Logged(st, table, name, td, r), LAMBDA st2 :
             IF r.ok THEN ResolveOk(Unwrap(r.dep), st2) ELSE ResolveErr(Unwrap(r.err), st2)))

\* the loop of replace
RECURSIVE replace_entries(_, _, _, _, _)
replace_entries(entries, specs, c, st, out) ==
    IF specs = <<>> THEN ResolveOk(out, st)
    ELSE LET spec == PackageIdSpec_parse(Head(specs))
             replacement == entries[Head(specs)]
         IN  IF ~spec.ok THEN ResolveErr(Error("ReplaceSpecInvalid", <<Head(specs)>>, <<>>), st)
             ELSE IF replacement.tag = "Workspace"
             THEN ResolveErr(Panic("unreachable", <<spec.name>>), st)
             ELSE IF is_version_specified(replacement)
             THEN ResolveErr(Error("ReplaceVersionRequirement", <<Head(specs)>>, <<>>), st)
             ELSE Try(to_dependency_unresolved(replacement, spec.name, c, None, st, "replace"),
                      LAMBDA r :
                        IF spec.version = None
                        THEN ResolveErr(Error("ReplaceNoVersion", <<Head(specs)>>, <<>>), r.st)
                        ELSE replace_entries(entries, Tail(specs), c, r.st,
                                 Append(out, [key |-> Head(specs),
                                              spec |-> with_default_url(spec),
                                              dep |-> locked_to(Unwrap(r.value),
                                                                Unwrap(spec.version))])))

\* TomlManifest::replace without its first check
replace_without_check(m, c, st) ==
    IF m.replace = None THEN ResolveOk(<<>>, st)
    ELSE replace_entries(Unwrap(m.replace), OrderedKeys(Unwrap(m.replace), ReplaceSpecOrder),
                         c, st, <<>>)

\* TomlManifest::replace
replace(m, c, st) ==
    IF IsSome(m.patch) /\ IsSome(m.replace)
    THEN ResolveErr(Error("ReplaceAndPatch", <<>>, <<>>), st)
    ELSE IF m.replace = None THEN ResolveOk(<<>>, st)
    ELSE replace_entries(Unwrap(m.replace), OrderedKeys(Unwrap(m.replace), ReplaceSpecOrder),
                         c, st, <<>>)

\* keys of [patch], sorted; a key is a registry name or a URL
PatchUrlOrder == <<"alt", "crates-io", "not a url">>

patch_url_ok(url) == url = "crates-io" \/ alt_registry_ok(url)

\* deps.iter().map(|(name, dep)| dep.to_dependency(name, cx, None)).collect()
RECURSIVE patch_dependencies(_, _, _, _, _)
patch_dependencies(table, names, c, st, out) ==
    IF names = <<>> THEN ResolveOk(out, st)
    ELSE Try(to_dependency_unresolved(table[Head(names)], Head(names), c, None, st, "patch"),
             LAMBDA r :
                patch_dependencies(table, Tail(names), c, r.st, Append(out, Unwrap(r.value))))

\* the loop of patch
RECURSIVE patch_entries(_, _, _, _, _)
patch_entries(entries, urls, c, st, out) ==
    IF urls = <<>> THEN ResolveOk(out, st)
    ELSE IF ~patch_url_ok(Head(urls))
    THEN ResolveErr(Error("PatchUrlInvalid", <<Head(urls)>>, <<>>), st)
    ELSE Try(patch_dependencies(entries[Head(urls)],
                                OrderedKeys(entries[Head(urls)], DepNameOrder), c, st, <<>>),
             LAMBDA r :
                patch_entries(entries, Tail(urls), c, r.st,
                              Insert(out, Head(urls), Unwrap(r.value))))

\* TomlManifest::patch
patch(m, c, st) ==
    IF m.patch = None THEN ResolveOk(EmptyMap, st)
    ELSE patch_entries(Unwrap(m.patch), OrderedKeys(Unwrap(m.patch), PatchUrlOrder), c, st,
                       EmptyMap)

\* names_sources that compares the kinds of the two sources only
RECURSIVE names_sources_kind_only(_, _)
names_sources_kind_only(ds, seen) ==
    IF ds = <<>> THEN None
    ELSE LET name == name_in_toml_of(Head(ds))
             prev == IF name \in DOMAIN seen THEN Some(seen[name]) ELSE None
         IN  IF IsSome(prev) /\ Unwrap(prev).kind # Head(ds).source_id.kind THEN Some(name)
             ELSE names_sources_kind_only(Tail(ds), Insert(seen, name, Head(ds).source_id))

\* the check of names_sources: the name of the first dependency whose source
\* differs from the one last recorded under its name
RECURSIVE names_sources(_, _)
names_sources(ds, seen) ==
    IF ds = <<>> THEN None
    ELSE LET name == name_in_toml_of(Head(ds))
             prev == IF name \in DOMAIN seen THEN Some(seen[name]) ELSE None
         IN  IF IsSome(prev) /\ prev # Some(Head(ds).source_id) THEN Some(name)
             ELSE names_sources(Tail(ds), Insert(seen, name, Head(ds).source_id))

-----------------------------------------------------------------------------
(* to_real_manifest: the fields of the package *)

\* project.<field>, and me.badges for the badges
declared(m, project, field) == IF field = "badges" THEN m.badges ELSE project[field]

\* project.<field>.clone().map(|mw| mw.resolve(..)).transpose()
resolve_optional(m, project, field, st, c) ==
    IF declared(m, project, field) = None THEN ResolveOk(None, st)
    ELSE Try(MaybeWorkspace_resolve(Unwrap(declared(m, project, field)), field, st, c),
             LAMBDA r : ResolveOk(r.value, r.st))

\* the fields of a struct expression, resolved in order up to the first error
RECURSIVE resolve_fields(_, _, _, _, _, _)
resolve_fields(m, project, fields, st, c, out) ==
    IF fields = <<>> THEN ResolveOk(out, st)
    ELSE Try(resolve_optional(m, project, Head(fields), st, c), LAMBDA r :
             resolve_fields(m, project, Tail(fields), r.st, c,
                            Insert(out, Head(fields), Unwrap(r.value))))

Editions == {"2015", "2018", "2021"}

\* Edition::first_version, as (major, minor)
first_version(edition) ==
    IF edition = "2018" THEN Some(<<1, 31>>)
    ELSE IF edition = "2021" THEN Some(<<1, 56>>)
    ELSE None

DigitOrder == <<"0", "1", "2", "3", "4", "5", "6", "7", "8", "9">>

DigitValue(ch) == (CHOOSE i \in DOMAIN DigitOrder : DigitOrder[i] = ch) - 1

\* the number a sequence of digits writes
RECURSIVE ParseNat(_, _)
ParseNat(digits, acc) ==
    IF digits = <<>> THEN acc
    ELSE ParseNat(Tail(digits), acc * 10 + DigitValue(Head(digits)))

\* the parts of a string between its dots
RECURSIVE SplitDots(_, _)
SplitDots(chars, part) ==
    IF chars = <<>> THEN <<part>>
    ELSE IF Head(chars) = "." THEN <<part>> \o SplitDots(Tail(chars), <<>>)
    ELSE SplitDots(Tail(chars), Append(part, Head(chars)))

\* a rust-version is digits and dots, in one to three non-empty parts
rust_version_ok(rust_version) ==
    /\ \A i \in DOMAIN rust_version : rust_version[i] \in AsciiDigits \cup {"."}
    /\ Len(SplitDots(rust_version, <<>>)) \in 1..3
    /\ \A i \in DOMAIN SplitDots(rust_version, <<>>) : SplitDots(rust_version, <<>>)[i] # <<>>

\* req.matches(first_version.major, first_version.minor - 1, 9999) for the caret
\* requirement the rust-version writes
older_than_edition(rust_version, edition) ==
    IF first_version(edition) = None THEN FALSE
    ELSE LET parts == SplitDots(rust_version, <<>>)
             first == Unwrap(first_version(edition))
         IN  /\ ParseNat(parts[1], 0) = first[1]
             /\ (Len(parts) = 1 \/ ParseNat(parts[2], 0) <= first[2] - 1)

\* the project as the pass has rewritten it, and what else it has resolved
ResolvedStart(project) ==
    [project |-> project, edition |-> "2015", rust_version |-> None,
     exclude |-> <<>>, include |-> <<>>, metadata |-> EmptyMap, publish |-> None,
     dependencies |-> None, dev_dependencies |-> None, build_dependencies |-> None,
     target |-> EmptyMap, replace |-> <<>>, patch |-> EmptyMap]

\* ManifestMetadata, from the fields as resolved
manifest_metadata(out) ==
    [k \in DOMAIN out |->
        IF k \in {"authors", "keywords", "categories"} THEN UnwrapOr(out[k], <<>>)
        ELSE IF k = "badges" THEN UnwrapOr(out[k], EmptyMap)
        ELSE IF k = "readme"
        THEN readme_for_project(default_readme_from_package_root(env, env.package_root), out[k])
        ELSE out[k]]

\* the rewriting of the project after the metadata: a field that was declared
\* now holds the resolved value
defined_fields(project, rv, exclude, include, metadata) ==
    [k \in DOMAIN project |->
        IF k \in {"description", "homepage", "documentation", "license", "license_file",
                  "repository"}
        THEN (IF metadata[k] = None THEN None ELSE Some(Defined(Unwrap(metadata[k]))))
        ELSE IF k = "readme"
        THEN (IF metadata[k] = None THEN None
              ELSE Some(Defined(Tagged("String", Unwrap(metadata[k])))))
        ELSE IF k \in {"authors", "keywords", "categories"}
        THEN (IF project[k] = None THEN None ELSE Some(Defined(metadata[k])))
        ELSE IF k = "rust_version"
        THEN (IF rv = None THEN None ELSE Some(Defined(Unwrap(rv))))
        ELSE IF k = "exclude"
        THEN (IF project[k] = None THEN None ELSE Some(Defined(exclude)))
        ELSE IF k = "include"
        THEN (IF project[k] = None THEN None ELSE Some(Defined(include)))
        ELSE project[k]]

\* Some(VecString(v)) => Some(v), Some(Bool(false)) => Some(vec![]), otherwise None
publish_registries(publish) ==
    IF publish = None THEN None
    ELSE IF Unwrap(publish).tag = "VecString" THEN Some(Unwrap(publish).s)
    ELSE IF Unwrap(publish).s = <<"false">> THEN Some(<<>>)
    ELSE None

\* profile names, sorted
ProfileNameOrder ==
    <<<<"a", ".", "b">>, NameDebug, <<"d", "e", "v">>, <<"r", "e", "l", "e", "a", "s", "e">>,
      NameTest>>

\* TomlProfiles::validate
RECURSIVE validate_profiles(_, _, _, _)
validate_profiles(profiles, names, features, ws) ==
    IF names = <<>> THEN Valid(ws)
    ELSE LET r == validate(profiles[Head(names)], Head(names), features, ws)
         IN  IF ~r.ok THEN r
             ELSE validate_profiles(profiles, Tail(names), features, r.warnings)

-----------------------------------------------------------------------------
(* to_real_manifest: the steps of the pass *)

\* the state local to the pass
TheLocal ==
    [cell |-> inherit_cell, loads |-> loads, requests |-> requests, deps |-> deps,
     processed |-> processed, warnings |-> warnings, nested_paths |-> nested_paths]

\* let mut cx = Context { .. }, with what get_ws reads
TheContext ==
    [source_id |-> env.source_id, root |-> env.package_root, features |-> cargo_features,
     platform |-> None, env |-> env, workspace_config |-> Unwrap(workspace_config)]

Commit(st) ==
    /\ inherit_cell' = st.cell
    /\ loads' = st.loads
    /\ requests' = st.requests
    /\ deps' = st.deps
    /\ processed' = st.processed
    /\ warnings' = st.warnings
    /\ nested_paths' = st.nested_paths

\* what the pass returns
PassOk(manifest) == [kind |-> "Ok", err |-> None, manifest |-> Some(manifest)]

PassFailed(err) ==
    [kind |-> IF err.kind = "Panic" THEN "Panic" ELSE "Err", err |-> Some(err),
     manifest |-> None]

\* the pass goes on to its next step
Continue(next, st) ==
    /\ Commit(st)
    /\ pc' = next
    /\ passResult' = None

\* `?` on an Err, bail!, or a panic: the pass ends without a manifest
Abort(err, st) ==
    /\ Commit(st)
    /\ pc' = "done"
    /\ passResult' = Some(PassFailed(err))

\* what no step of the pass changes
PassFrame == UNCHANGED <<me, env, document, depVars, mergeVars, validateVars>>

PlatformNames == IF me.target = None THEN <<>> ELSE OrderedKeys(Unwrap(me.target), PlatformOrder)

\* lines 1539-1581
Start ==
    /\ pc = "start"
    /\ cargo_features' = me.cargo_features
    /\ platform_i' = platform_i
    /\ PassFrame
    /\ LET project == OrElse(me.project, me.package)
       IN  IF project = None
           THEN /\ Abort(Error("NoPackageSection", <<>>, <<>>), TheLocal)
                /\ UNCHANGED <<workspace_config, resolved>>
           ELSE IF IsSome(me.workspace) /\ IsSome(Unwrap(project).workspace)
           THEN /\ Abort(Error("BothWorkspaces", <<>>, <<>>), TheLocal)
                /\ UNCHANGED <<workspace_config, resolved>>
           ELSE /\ workspace_config' =
                      IF IsSome(me.workspace)
                      THEN Some(RootConfig(
                               [UnwrapOr(Unwrap(me.workspace).package, InheritableDefault)
                                   EXCEPT !.ws_root = env.package_root,
                                          !.dependencies = Unwrap(me.workspace).dependencies]))
                      ELSE Some(MemberConfig(Unwrap(project).workspace))
                /\ IF Unwrap(project).name = ""
                   THEN /\ Abort(Error("EmptyPackageName", <<>>, <<>>), TheLocal)
                        /\ UNCHANGED resolved
                   ELSE IF ~validate_package_name_ok(Unwrap(project).name)
                   THEN /\ Abort(Error("InvalidPackageName", <<"package name">>,
                                       <<Unwrap(project).name>>), TheLocal)
                        /\ UNCHANGED resolved
                   ELSE /\ Continue("version", TheLocal)
                        /\ resolved' = ResolvedStart(Unwrap(project))

\* lines 1587-1594
Version ==
    /\ pc = "version"
    /\ PassFrame
    /\ UNCHANGED <<cargo_features, workspace_config, platform_i>>
    /\ Bind(MaybeWorkspace_resolve(resolved.project.version, "version", TheLocal, TheContext),
            LAMBDA r :
               IF ~r.ok
               THEN Abort(Unwrap(r.err), r.st) /\ UNCHANGED resolved
               ELSE /\ Continue("edition", r.st)
                    /\ resolved' = [resolved EXCEPT !.project.version = Defined(Unwrap(r.value))])

\* lines 1596-1618
Edition ==
    /\ pc = "edition"
    /\ PassFrame
    /\ UNCHANGED <<cargo_features, workspace_config, platform_i>>
    /\ IF resolved.project.edition = None
       THEN Continue("rust_version", TheLocal) /\ UNCHANGED resolved
       ELSE Bind(MaybeWorkspace_resolve(Unwrap(resolved.project.edition), "edition",
                                            TheLocal, TheContext),
                 LAMBDA r :
                    IF ~r.ok
                    THEN Abort(Unwrap(r.err), r.st) /\ UNCHANGED resolved
                    ELSE IF Unwrap(r.value) \notin Editions
                    THEN /\ Abort(Error("EditionParse", <<Unwrap(r.value)>>, <<>>), r.st)
                         /\ UNCHANGED resolved
                    ELSE /\ Continue("rust_version", r.st)
                         /\ resolved' = [resolved EXCEPT !.project.edition = Some(Defined(Unwrap(r.value))),
                                                         !.edition = Unwrap(r.value)])

\* lines 1620-1645
RustVersion ==
    /\ pc = "rust_version"
    /\ PassFrame
    /\ UNCHANGED <<cargo_features, workspace_config, platform_i>>
    /\ IF resolved.project.rust_version = None
       THEN Continue("targets", TheLocal) /\ UNCHANGED resolved
       ELSE Bind(MaybeWorkspace_resolve(Unwrap(resolved.project.rust_version),
                                            "rust_version", TheLocal, TheContext),
                 LAMBDA r :
                    IF ~r.ok
                    THEN Abort(Unwrap(r.err), r.st) /\ UNCHANGED resolved
                    ELSE IF ~rust_version_ok(Unwrap(r.value))
                    THEN /\ Abort(Error("RustVersionInvalid", Unwrap(r.value), <<>>), r.st)
                         /\ UNCHANGED resolved
                    ELSE IF older_than_edition(Unwrap(r.value), resolved.edition)
                    THEN /\ Abort(Error("RustVersionOlderThanEdition", Unwrap(r.value),
                                        <<resolved.edition>>), r.st)
                         /\ UNCHANGED resolved
                    ELSE /\ Continue("targets", r.st)
                         /\ resolved' = [resolved EXCEPT !.rust_version = r.value])

\* lines 1647-1698: the gate of metabuild, the resolver, the targets, links
Targets ==
    /\ pc = "targets"
    /\ PassFrame
    /\ UNCHANGED <<cargo_features, workspace_config, platform_i, resolved>>
    /\ LET project == resolved.project
           ws_resolver == IF me.workspace = None THEN None ELSE Unwrap(me.workspace).resolver
       IN  IF IsSome(project.metabuild) /\ ~require_ok(cargo_features, "metabuild")
           THEN Abort(Error("GateNotEnabled", <<"metabuild">>, <<>>), TheLocal)
           ELSE IF IsSome(project.resolver) /\ IsSome(ws_resolver)
           THEN Abort(Error("ResolverInBoth", <<>>, <<>>), TheLocal)
           ELSE IF OrElse(project.resolver, ws_resolver) \notin {None, Some("1"), Some("2")}
           THEN Abort(Error("ResolverInvalid", OrElse(project.resolver, ws_resolver), <<>>),
                      TheLocal)
           ELSE IF env.targets = "err"
           THEN Abort(Error("TargetsFailed", <<>>, <<>>), TheLocal)
           ELSE IF IsSome(project.links) /\ ~env.custom_build
           THEN Abort(Error("LinksWithoutBuildScript", <<Unwrap(project.links)>>, <<>>), TheLocal)
           ELSE Continue("dependencies", TheLocal)

\* lines 1744-1751
Dependencies ==
    /\ pc = "dependencies"
    /\ PassFrame
    /\ UNCHANGED <<cargo_features, workspace_config, platform_i>>
    /\ Bind(process_dependencies(me.dependencies, None, TheContext, TheLocal, "dependencies"),
            LAMBDA r :
               IF ~r.ok
               THEN Abort(Unwrap(r.err), r.st) /\ UNCHANGED resolved
               ELSE /\ Continue("dev_dependencies", r.st)
                    /\ resolved' = [resolved EXCEPT !.dependencies = Unwrap(r.value)])

\* lines 1752-1766
DevDependencies ==
    /\ pc = "dev_dependencies"
    /\ PassFrame
    /\ UNCHANGED <<cargo_features, workspace_config, platform_i>>
    /\ LET st == warn_on_deprecated(TheLocal,
                     IsSome(me.dev_dependencies) /\ IsSome(me.dev_dependencies2),
                     "dev-dependencies", resolved.project.name)
       IN  Bind(process_dependencies(OrElse(me.dev_dependencies, me.dev_dependencies2),
                                     Some("Development"), TheContext, st, "dev-dependencies"),
                LAMBDA r :
                   IF ~r.ok
                   THEN Abort(Unwrap(r.err), r.st) /\ UNCHANGED resolved
                   ELSE /\ Continue("build_dependencies", r.st)
                        /\ resolved' = [resolved EXCEPT !.dev_dependencies = Unwrap(r.value)])

\* lines 1767-1783
BuildDependencies ==
    /\ pc = "build_dependencies"
    /\ PassFrame
    /\ UNCHANGED <<cargo_features, workspace_config>>
    /\ LET st == warn_on_deprecated(TheLocal,
                     IsSome(me.build_dependencies) /\ IsSome(me.build_dependencies2),
                     "build-dependencies", resolved.project.name)
       IN  Bind(process_dependencies(OrElse(me.build_dependencies, me.build_dependencies2),
                                     Some("Build"), TheContext, st, "build-dependencies"),
                LAMBDA r :
                   IF ~r.ok
                   THEN Abort(Unwrap(r.err), r.st) /\ UNCHANGED <<resolved, platform_i>>
                   ELSE /\ Continue(IF PlatformNames = <<>> THEN "replace" ELSE "target", r.st)
                        /\ platform_i' = 1
                        /\ resolved' = [resolved EXCEPT !.build_dependencies = Unwrap(r.value)])

\* lines 1784-1841, one turn of the loop
Platform ==
    /\ pc = "target"
    /\ PassFrame
    /\ UNCHANGED <<cargo_features, workspace_config>>
    /\ LET name == PlatformNames[platform_i]
       IN  Bind(process_platform(name, Unwrap(me.target)[name], TheContext, TheLocal),
                LAMBDA r :
                   IF ~r.ok
                   THEN Abort(Unwrap(r.err), r.st) /\ UNCHANGED <<resolved, platform_i>>
                   ELSE /\ Continue(IF platform_i = Len(PlatformNames) THEN "replace" ELSE "target", r.st)
                        /\ platform_i' = platform_i + 1
                        /\ resolved' = [resolved EXCEPT !.target = Insert(@, name, Unwrap(r.value))])

\* line 1848
Replace ==
    /\ pc = "replace"
    /\ PassFrame
    /\ UNCHANGED <<cargo_features, workspace_config, platform_i>>
    /\ Bind(replace(me, TheContext, TheLocal),
            LAMBDA r :
               IF ~r.ok
               THEN Abort(Unwrap(r.err), r.st) /\ UNCHANGED resolved
               ELSE /\ Continue("patch", r.st)
                    /\ resolved' = [resolved EXCEPT !.replace = Unwrap(r.value)])

\* line 1849
Patch ==
    /\ pc = "patch"
    /\ PassFrame
    /\ UNCHANGED <<cargo_features, workspace_config, platform_i>>
    /\ Bind(patch(me, TheContext, TheLocal),
            LAMBDA r :
               IF ~r.ok
               THEN Abort(Unwrap(r.err), r.st) /\ UNCHANGED resolved
               ELSE /\ Continue("names_sources", r.st)
                    /\ resolved' = [resolved EXCEPT !.patch = Unwrap(r.value)])

\* lines 1851-1865
NamesSources ==
    /\ pc = "names_sources"
    /\ PassFrame
    /\ UNCHANGED <<cargo_features, workspace_config, platform_i, resolved>>
    /\ IF IsSome(names_sources(deps, EmptyMap))
       THEN Abort(Error("DifferentSourcePaths", <<>>, <<Unwrap(names_sources(deps, EmptyMap))>>),
                  TheLocal)
       ELSE Continue("exclude", TheLocal)

\* lines 1867-1878
ExcludeInclude ==
    /\ pc = "exclude"
    /\ PassFrame
    /\ UNCHANGED <<cargo_features, workspace_config, platform_i>>
    /\ Bind(resolve_fields(me, resolved.project, <<"exclude", "include">>, TheLocal,
                               TheContext, EmptyMap),
            LAMBDA r :
               IF ~r.ok
               THEN Abort(Unwrap(r.err), r.st) /\ UNCHANGED resolved
               ELSE /\ Continue("summary", r.st)
                    /\ resolved' = [resolved EXCEPT
                                       !.exclude = UnwrapOr(Unwrap(r.value).exclude, <<>>),
                                       !.include = UnwrapOr(Unwrap(r.value).include, <<>>)])

\* lines 1881-1887
MakeSummary ==
    /\ pc = "summary"
    /\ PassFrame
    /\ UNCHANGED <<cargo_features, workspace_config, platform_i, resolved>>
    /\ IF env.summary = "err"
       THEN Abort(Error("SummaryFailed", <<>>, <<>>), TheLocal)
       ELSE Continue("metadata", TheLocal)

\* lines 1889-2006
Metadata ==
    /\ pc = "metadata"
    /\ PassFrame
    /\ UNCHANGED <<cargo_features, workspace_config, platform_i>>
    /\ Bind(resolve_fields(me, resolved.project, MetadataOrder, TheLocal, TheContext,
                               EmptyMap),
            LAMBDA r :
               IF ~r.ok
               THEN Abort(Unwrap(r.err), r.st) /\ UNCHANGED resolved
               ELSE /\ Continue("profiles", r.st)
                    /\ resolved' =
                          [resolved EXCEPT
                              !.metadata = manifest_metadata(Unwrap(r.value)),
                              !.project = defined_fields(@, resolved.rust_version, resolved.exclude,
                                                         resolved.include,
                                                         manifest_metadata(Unwrap(r.value)))])

\* lines 2008-2011
Profiles ==
    /\ pc = "profiles"
    /\ PassFrame
    /\ UNCHANGED <<cargo_features, workspace_config, platform_i, resolved>>
    /\ IF me.profile = None THEN Continue("publish", TheLocal)
       ELSE Bind(validate_profiles(Unwrap(me.profile),
                                       OrderedKeys(Unwrap(me.profile), ProfileNameOrder),
                                       cargo_features, warnings),
                 LAMBDA r :
                    IF ~r.ok THEN Abort(Unwrap(r.err), [TheLocal EXCEPT !.warnings = r.warnings])
                    ELSE Continue("publish", [TheLocal EXCEPT !.warnings = r.warnings]))

\* lines 2013-2025
Publish ==
    /\ pc = "publish"
    /\ PassFrame
    /\ UNCHANGED <<cargo_features, workspace_config, platform_i>>
    /\ Bind(unwrapped(resolve_optional(me, resolved.project, "publish", TheLocal, TheContext)),
            LAMBDA r :
               IF ~r.ok
               THEN Abort(Unwrap(r.err), r.st) /\ UNCHANGED resolved
               ELSE /\ Continue("finish", r.st)
                    /\ resolved' =
                          [resolved EXCEPT
                              !.publish = publish_registries(Unwrap(r.value)),
                              !.project.publish = IF Unwrap(r.value) = None THEN None
                                                  ELSE Some(Defined(Unwrap(Unwrap(r.value))))])

\* a Manifest whose resolved document keeps the package and the tables as written
Manifest_as_written(m, res, wc, ds, ws) ==
    [deps |-> ds, exclude |-> res.exclude, include |-> res.include, metadata |-> res.metadata,
     profiles |-> m.profile, publish |-> res.publish, replace |-> res.replace,
     patch |-> res.patch, workspace_config |-> wc, edition |-> res.edition,
     rust_version |-> res.rust_version, warnings |-> ws,
     resolved_toml |-> [m EXCEPT !.package = OrElse(m.project, m.package), !.project = None]]

\* the Manifest, with the resolved document
Manifest(m, res, wc, ds, ws) ==
    [deps |-> ds, exclude |-> res.exclude, include |-> res.include, metadata |-> res.metadata,
     profiles |-> m.profile, publish |-> res.publish, replace |-> res.replace,
     patch |-> res.patch, workspace_config |-> wc, edition |-> res.edition,
     rust_version |-> res.rust_version, warnings |-> ws,
     resolved_toml |->
        [m EXCEPT !.package = Some(res.project), !.project = None,
                  !.dependencies = res.dependencies,
                  !.dev_dependencies = res.dev_dependencies, !.dev_dependencies2 = None,
                  !.build_dependencies = res.build_dependencies, !.build_dependencies2 = None,
                  !.target = IF res.target = EmptyMap THEN None ELSE Some(res.target),
                  !.badges = IF m.badges = None THEN None
                             ELSE Some(Defined(res.metadata.badges))]]

\* lines 2059-2129
Finish ==
    /\ pc = "finish"
    /\ PassFrame
    /\ UNCHANGED <<cargo_features, workspace_config, platform_i, resolved>>
    /\ LET ws == IF IsSome(resolved.project.license_file) /\ IsSome(resolved.project.license)
                 THEN <<Warning("LicenseAndLicenseFile", <<>>, resolved.project.name)>> \o warnings
                 ELSE warnings
       IN  IF env.feature_gate = "err"
           THEN Abort(Error("FeatureGate", <<>>, <<>>), TheLocal)
           ELSE /\ Commit(TheLocal)
                /\ pc' = "done"
                /\ passResult' = Some(PassOk(Manifest(me, resolved, Unwrap(workspace_config),
                                                      deps, ws)))

Next ==
    \/ Start
    \/ Version
    \/ Edition
    \/ RustVersion
    \/ Targets
    \/ Dependencies
    \/ DevDependencies
    \/ BuildDependencies
    \/ Platform
    \/ Replace
    \/ Patch
    \/ NamesSources
    \/ ExcludeInclude
    \/ MakeSummary
    \/ Metadata
    \/ Profiles
    \/ Publish
    \/ Finish

-----------------------------------------------------------------------------
(* read_manifest_from_str and to_virtual_manifest *)

\* IntermediateDependency: the keys of a table that declares a dependency
IntermediateDependency(workspace, details) == [workspace |-> workspace, details |-> details]

\* a dependency as the document writes it: a string or a table
WrittenStr(version) == [tag |-> "Str", s |-> Some(version), map |-> None]

WrittenMap(details) == [tag |-> "Map", s |-> None, map |-> Some(details)]

\* an outcome of a deserializer
Deserialized(value) == [ok |-> TRUE, err |-> None, value |-> Some(value)]

NotDeserialized(what) ==
    [ok |-> FALSE, err |-> Some(Error("Deserialize", <<what>>, <<>>)), value |-> None]

\* TomlDependencyVisitor::visit_str
visit_str(version) == Deserialized(Simple(version))

\* visit_map that takes { workspace = false } for a declaration of its own
visit_map_false_is_detailed(details) ==
    IF details.workspace = Some(TRUE)
    THEN Deserialized(WorkspaceDep(TomlWorkspaceDependency(TRUE, details.details.features,
                                                           details.details.optional)))
    ELSE Deserialized(DetailedDep(details.details))

\* TomlDependencyVisitor::visit_map
visit_map(details) ==
    IF IsSome(details.workspace)
    THEN IF Unwrap(details.workspace)
         THEN Deserialized(WorkspaceDep(TomlWorkspaceDependency(TRUE, details.details.features,
                                                                details.details.optional)))
         ELSE NotDeserialized("workspace cannot be false")
    ELSE Deserialized(DetailedDep(details.details))

\* TomlDependency::deserialize
deserialize_dependency(written) ==
    IF written.tag = "Str" THEN visit_str(Unwrap(written.s)) ELSE visit_map(Unwrap(written.map))

\* a table of dependencies deserializes if each of its entries does
table_ok(table) ==
    table = None \/ \A k \in DOMAIN Unwrap(table) : deserialize_dependency(Unwrap(table)[k]).ok

table_value(table) ==
    IF table = None THEN None
    ELSE Some([k \in DOMAIN Unwrap(table) |->
                 Unwrap(deserialize_dependency(Unwrap(table)[k]).value)])

\* the tables of dependencies of a document, and of one of its platforms
TableFields ==
    {"dependencies", "dev_dependencies", "dev_dependencies2", "build_dependencies",
     "build_dependencies2"}

platform_ok(platform) == \A f \in TableFields : table_ok(platform[f])

platform_value(platform) == [f \in TableFields |-> table_value(platform[f])]

\* serde_ignored::deserialize::<TomlManifest>: what can fail is a dependency
manifest_ok(toml) ==
    /\ \A f \in TableFields \cup {"replace"} : table_ok(toml[f])
    /\ toml.target = None \/ \A k \in DOMAIN Unwrap(toml.target) : platform_ok(Unwrap(toml.target)[k])
    /\ toml.patch = None \/ \A k \in DOMAIN Unwrap(toml.patch) : table_ok(Some(Unwrap(toml.patch)[k]))
    /\ toml.workspace = None \/ table_ok(Unwrap(toml.workspace).dependencies)

manifest_value(toml) ==
    [f \in DOMAIN toml |->
        IF f \in TableFields \cup {"replace"} THEN table_value(toml[f])
        ELSE IF f = "target" /\ IsSome(toml[f])
        THEN Some([k \in DOMAIN Unwrap(toml[f]) |-> platform_value(Unwrap(toml[f])[k])])
        ELSE IF f = "patch" /\ IsSome(toml[f])
        THEN Some([k \in DOMAIN Unwrap(toml[f]) |-> Unwrap(table_value(Some(Unwrap(toml[f])[k])))])
        ELSE IF f = "workspace" /\ IsSome(toml[f])
        THEN Some([Unwrap(toml[f]) EXCEPT !.dependencies = table_value(@)])
        ELSE toml[f]]

\* TomlDependency::is_optional
is_optional(td) ==
    IF td.tag = "Detailed" THEN UnwrapOr(Unwrap(td.detailed).optional, FALSE)
    ELSE IF td.tag = "Simple" THEN FALSE
    ELSE UnwrapOr(Unwrap(td.ws).optional, FALSE)

\* the loop over [workspace.dependencies]: the first entry that is refused
RECURSIVE workspace_dependencies_check(_, _)
workspace_dependencies_check(dependencies, names) ==
    IF names = <<>> THEN None
    ELSE IF is_optional(dependencies[Head(names)])
    THEN Some(Error("WorkspaceDependencyOptional", <<>>, <<Head(names)>>))
    ELSE IF dependencies[Head(names)].tag = "Workspace"
    THEN Some(Error("WorkspaceDependencyInherits", <<>>, <<Head(names)>>))
    ELSE workspace_dependencies_check(dependencies, Tail(names))

\* the section the check of a misplaced cargo-features looks at
inspected_section(toml) ==
    IF IsSome(toml.package) THEN "package"
    ELSE IF IsSome(toml.project) THEN "project"
    ELSE ""

\* what read_manifest_from_str does before it calls a pass: Ok(manifest) or the error
read_document(doc) ==
    IF ~doc.parses THEN NotDeserialized("could not parse input as TOML")
    ELSE IF inspected_section(doc.toml) \in doc.misplaced
    THEN [ok |-> FALSE, err |-> Some(Error("MisplacedCargoFeatures", <<>>,
                                           <<inspected_section(doc.toml)>>)), value |-> None]
    ELSE IF ~manifest_ok(doc.toml) THEN NotDeserialized("workspace cannot be false")
    ELSE Bind(manifest_value(doc.toml), LAMBDA manifest :
         Bind(IF manifest.workspace = None \/ Unwrap(manifest.workspace).dependencies = None
              THEN None
              ELSE workspace_dependencies_check(
                       Unwrap(Unwrap(manifest.workspace).dependencies),
                       OrderedKeys(Unwrap(Unwrap(manifest.workspace).dependencies),
                                   DepNameOrder)), LAMBDA e :
             IF IsSome(e) THEN [ok |-> FALSE, err |-> e, value |-> None]
             ELSE Deserialized(manifest)))

\* lines 75-161: the document is parsed and deserialized, then handed to a pass
Read ==
    /\ pc = "read"
    /\ UNCHANGED <<env, document, cargo_features, workspace_config, platform_i, resolved,
                   depVars, mergeVars, validateVars>>
    /\ Bind(read_document(Unwrap(document)), LAMBDA r :
          IF ~r.ok
          THEN /\ Commit(TheLocal)
               /\ pc' = "returned"
               /\ passResult' = Some(PassFailed(Unwrap(r.err)))
               /\ me' = me
          ELSE /\ Continue(IF IsSome(Unwrap(r.value).project) \/ IsSome(Unwrap(r.value).package)
                           THEN "start" ELSE "virtual", TheLocal)
               /\ me' = Unwrap(r.value))

\* the sections a virtual manifest must not have, in the order they are tested
VirtualSectionOrder ==
    <<"project", "package", "lib", "bin", "example", "test", "bench", "dependencies",
      "dev_dependencies", "build_dependencies", "features", "target", "badges">>

section_present(m, section) ==
    IF section = "dev_dependencies"
    THEN IsSome(m.dev_dependencies) \/ IsSome(m.dev_dependencies2)
    ELSE IF section = "build_dependencies"
    THEN IsSome(m.build_dependencies) \/ IsSome(m.build_dependencies2)
    ELSE IsSome(m[section])

\* lines 2138-2176: the first section of a virtual manifest that is not allowed
RECURSIVE forbidden_section(_, _)
forbidden_section(m, sections) ==
    IF sections = <<>> THEN None
    ELSE IF section_present(m, Head(sections)) THEN Some(Head(sections))
    ELSE forbidden_section(m, Tail(sections))

\* the Context of to_virtual_manifest
VirtualContext ==
    [source_id |-> env.source_id, root |-> env.package_root, features |-> me.cargo_features,
     platform |-> None, env |-> env, workspace_config |-> None]

\* VirtualManifest::new
VirtualManifest(replaced, patched, wc, profiles, features, resolve_behavior, ws) ==
    [replace |-> replaced, patch |-> patched, workspace_config |-> wc, profiles |-> profiles,
     features |-> features, resolve_behavior |-> resolve_behavior, warnings |-> ws]

PassVirtual(manifest) == [kind |-> "Virtual", err |-> None, manifest |-> Some(manifest)]

\* lines 2203-2220: what follows replace and patch in to_virtual_manifest
virtual_tail(m, st, replaced, patched) ==
    Bind(IF m.profile = None THEN Valid(st.warnings)
         ELSE validate_profiles(Unwrap(m.profile),
                                OrderedKeys(Unwrap(m.profile), ProfileNameOrder),
                                m.cargo_features, st.warnings), LAMBDA v :
    Bind([st EXCEPT !.warnings = v.warnings], LAMBDA st2 :
        IF ~v.ok THEN ResolveErr(Unwrap(v.err), st2)
        ELSE IF IsSome(m.workspace)
                /\ Unwrap(m.workspace).resolver \notin {None, Some("1"), Some("2")}
        THEN ResolveErr(Error("ResolverInvalid", Unwrap(m.workspace).resolver, <<>>), st2)
        ELSE IF m.workspace = None
        THEN ResolveErr(Error("VirtualWithoutWorkspace", <<>>, <<>>), st2)
        ELSE ResolveOk(VirtualManifest(replaced, patched,
                           RootConfig([UnwrapOr(Unwrap(m.workspace).package, InheritableDefault)
                                          EXCEPT !.ws_root = env.package_root,
                                                 !.dependencies = Unwrap(m.workspace).dependencies]),
                           m.profile, m.cargo_features, Unwrap(m.workspace).resolver,
                           st2.warnings), st2)))

\* to_virtual_manifest, lines 2132-2237
ToVirtualManifest ==
    /\ pc = "virtual"
    /\ PassFrame
    /\ UNCHANGED <<platform_i, resolved>>
    /\ IF IsSome(forbidden_section(me, VirtualSectionOrder))
       THEN /\ Abort(Error("VirtualSection", forbidden_section(me, VirtualSectionOrder), <<>>),
                     TheLocal)
            /\ UNCHANGED <<cargo_features, workspace_config>>
       ELSE /\ cargo_features' = me.cargo_features
            /\ Bind(Try(replace(me, VirtualContext, TheLocal), LAMBDA r :
                    Try(patch(me, VirtualContext, r.st), LAMBDA q :
                        virtual_tail(me, q.st, Unwrap(r.value), Unwrap(q.value)))), LAMBDA v :
                  IF ~v.ok
                  THEN Abort(Unwrap(v.err), v.st) /\ UNCHANGED workspace_config
                  ELSE /\ Commit(v.st)
                       /\ pc' = "done"
                       /\ passResult' = Some(PassVirtual(Unwrap(v.value)))
                       /\ workspace_config' = Some(Unwrap(v.value).workspace_config))

\* add_unused: a warning for each key of the document that was not read
RECURSIVE add_unused(_, _)
add_unused(ws, unused) ==
    IF unused = <<>> THEN ws
    ELSE add_unused(
             IF Head(unused) = "profiles.debug"
             THEN ws \o <<Warning("UnusedKey", <<Head(unused)>>, <<>>),
                          Warning("UseProfileDev", <<>>, <<>>)>>
             ELSE Append(ws, Warning("UnusedKey", <<Head(unused)>>, <<>>)),
             Tail(unused))

\* lines 162-179: what read_manifest_from_str does with what the pass returned
Return ==
    /\ pc = "done"
    /\ IsSome(document)
    /\ PassFrame
    /\ UNCHANGED <<cargo_features, workspace_config, platform_i, resolved>>
    /\ Commit(TheLocal)
    /\ pc' = "returned"
    /\ LET r == Unwrap(passResult)
       IN  passResult' =
              IF r.kind \in {"Err", "Panic"} THEN passResult
              ELSE IF r.kind = "Ok" /\ env.targets = "none"
              THEN Some(PassFailed(Error("NoTargets", <<>>, <<>>)))
              ELSE Some([r EXCEPT !.kind = IF r.kind = "Ok" THEN "Real" ELSE "Virtual",
                                  !.manifest = Some([Unwrap(r.manifest) EXCEPT !.warnings =
                                                        add_unused(@, Unwrap(document).unused)])])

NextRead ==
    \/ Read
    \/ ToVirtualManifest
    \/ Return
    \/ Next

-----------------------------------------------------------------------------
(* SpecDep: one dependency declaration resolved by to_dependency *)

DepKinds == {None, Some("Development"), Some("Build")}

FeatureLists == Opt(SeqUpTo(FeatureStrings, MaxFeatures))

PathFoo == <<"..", "foo">>

PathBar == <<"bar">>

PackageRoot == <<"ws", "member">>

WorkspaceRoot == <<"ws">>

\* the source fields and git details, each set or not
SourceShapes ==
    {[DetailedDefault EXCEPT !.version = v, !.git = g, !.path = p, !.registry = r,
                             !.registry_index = x, !.branch = b, !.tag = t, !.rev = e] :
        v \in Opt({VersionPlain}), g \in Opt({GitUrlPlain}), p \in Opt({PathFoo}),
        r \in Opt({"alt"}), x \in Opt({IndexUrlAlt}), b \in Opt({"main"}),
        t \in Opt({"v1"}), e \in Opt({"abc123"})}

\* the same with the values the collaborators reject or warn about
SourceValues ==
    {[DetailedDefault EXCEPT !.version = v, !.git = g, !.path = p, !.registry = r,
                             !.registry_index = x, !.branch = b] :
        v \in Opt({VersionPlain, VersionMeta, VersionInvalid}),
        g \in Opt({GitUrlPlain, GitUrlFragment, GitUrlInvalid}), p \in Opt({PathFoo}),
        r \in Opt({"alt", "unknown"}), x \in Opt({IndexUrlAlt, IndexUrlInvalid}),
        b \in Opt({"main"})}

Context(source_id, features, platform) ==
    [source_id |-> source_id, root |-> PackageRoot, features |-> features,
     platform |-> platform]

ConsumerSources == {SourceId_for_path(PackageRoot), SourceIdRegistryOfConsumer}

\* version, git, path and registry, each set or not
SourceShapesSmall ==
    {[DetailedDefault EXCEPT !.version = v, !.git = g, !.path = p, !.registry = r,
                             !.registry_index = x] :
        v \in Opt({VersionPlain}), g \in Opt({GitUrlPlain}), p \in Opt({PathFoo}),
        r \in Opt({"alt"}), x \in Opt({IndexUrlAlt})}

\* the fields of `shape` that choose the source, with the other fields of `extra`
Overlay(shape, extra, f) ==
    [extra EXCEPT !.version = shape.version, !.git = shape.git, !.path = shape.path,
                  !.registry = shape.registry, !.registry_index = shape.registry_index,
                  !.features = f]

\* every source shape with every feature list
InitFeatures ==
    \E d \in SourceShapes, f \in FeatureLists, s \in ConsumerSources :
        /\ dep = DetailedDep([d EXCEPT !.features = f])
        /\ depKind = None
        /\ cx = Context(s, {}, None)

\* the values the collaborators reject or warn about
InitValues ==
    \E d \in SourceValues, s \in ConsumerSources :
        /\ dep = DetailedDep(d)
        /\ depKind = None
        /\ cx = Context(s, {}, None)

\* the remaining fields, a group at a time
InitDefaultFeatures ==
    \E d \in SourceShapesSmall, a \in Opt(BOOLEAN), b \in Opt(BOOLEAN), o \in Opt(BOOLEAN),
       k \in Opt({"renamed"}), pf \in Opt({"cfg(unix)"}), f \in {None, Some(<<FeatSlash>>)} :
        /\ dep = DetailedDep(Overlay(d, [DetailedDefault EXCEPT
                                            !.default_features = a, !.default_features2 = b,
                                            !.optional = o, !.package = k], f))
        /\ depKind = None
        /\ cx = Context(SourceId_for_path(PackageRoot), {}, pf)

InitPublic ==
    \E d \in SourceShapesSmall, q \in Opt(BOOLEAN), kind \in DepKinds,
       fs \in {{}, {"public-dependency"}}, f \in {None, Some(<<FeatSlash>>)} :
        /\ dep = DetailedDep(Overlay(d, [DetailedDefault EXCEPT !.public = q], f))
        /\ depKind = kind
        /\ cx = Context(SourceId_for_path(PackageRoot), fs, None)

InitArtifact ==
    \E d \in SourceShapesSmall, a \in Opt({<<"bin">>, <<"bogus">>}), l \in Opt(BOOLEAN),
       t \in Opt({"target", "x86_64-unknown-linux-gnu"}), kind \in DepKinds,
       f \in {None, Some(<<FeatSlash>>)} :
        /\ dep = DetailedDep(Overlay(d, [DetailedDefault EXCEPT
                                            !.artifact = a, !.lib = l, !.target = t], f))
        /\ depKind = kind
        /\ cx = Context(SourceId_for_path(PackageRoot), {}, None)

DepNames == {"a", "b"}

\* a declaration that gives a version and nothing else, in either form
OnlyVersionForms(v) == {Simple(v), DetailedDep([DetailedDefault EXCEPT !.version = Some(v)])}

InitSimple ==
    \E v \in {VersionPlain, VersionMeta, VersionInvalid}, n \in DepNames, kind \in DepKinds,
       s \in ConsumerSources, pf \in Opt({"cfg(unix)"}), fs \in {{}, {"public-dependency"}} :
        /\ dep \in OnlyVersionForms(v)
        /\ depName = n
        /\ depKind = kind
        /\ cx = Context(s, fs, pf)

InitDep ==
    /\ pc = "resolve"
    /\ \/ /\ InitFeatures \/ InitValues \/ InitDefaultFeatures \/ InitPublic \/ InitArtifact
          /\ depName = "a"
       \/ InitSimple
    /\ warnings = <<>>
    /\ nested_paths = <<>>
    /\ depResult = None
    /\ cargo_features = {}
    /\ IdleMerge
    /\ IdleValidate
    /\ IdlePass

\* resolved.to_dependency(n, cx, kind), as process_dependencies calls it
ToDependency ==
    /\ pc = "resolve"
    /\ LET r == to_dependency(dep, depName, cx, depKind, warnings, nested_paths)
       IN  /\ depResult' = Some(r)
           /\ warnings' = r.warnings
           /\ nested_paths' = r.nested_paths
    /\ pc' = "resolved"
    /\ UNCHANGED <<dep, depName, depKind, cx, cargo_features, mergeVars, validateVars, passVars>>

NextDep == ToDependency

SpecDep == InitDep /\ [][NextDep]_vars

-----------------------------------------------------------------------------
(* Spec: a resolution pass, to_real_manifest on a document *)

\* what a document declares for a field, and what the root document does
OwnValue(field) ==
    CASE field = "version" -> "1.0.0"
      [] field = "edition" -> "2021"
      [] field = "rust_version" -> <<"1", ".", "5", "6">>
      [] field = "readme" -> Tagged("String", <<"README.md">>)
      [] field = "license_file" -> <<"LICENSE">>
      [] field = "publish" -> Tagged("Bool", <<"false">>)
      [] field = "badges" -> [k \in {"ci"} |-> "own"]
      [] OTHER -> <<"own", field>>

WorkspaceValue(field) ==
    CASE field = "version" -> "2.0.0"
      [] field = "edition" -> "2018"
      [] field = "rust_version" -> <<"1", ".", "6", "0">>
      [] field = "readme" -> Tagged("String", <<"docs", "README.md">>)
      [] field = "license_file" -> <<"LICENSE-WS">>
      [] field = "publish" -> Tagged("VecString", <<"alt">>)
      [] field = "badges" -> [k \in {"ci"} |-> "workspace"]
      [] OTHER -> <<"workspace", field>>

\* TomlProject with a name and a version only
BaseProject ==
    [name |-> "pkg", version |-> Defined(OwnValue("version")), workspace |-> None,
     metabuild |-> None, resolver |-> None, links |-> None, edition |-> None,
     rust_version |-> None, exclude |-> None, include |-> None, description |-> None,
     homepage |-> None, documentation |-> None, readme |-> None, authors |-> None,
     license |-> None, license_file |-> None, repository |-> None, keywords |-> None,
     categories |-> None, publish |-> None]

\* TomlManifest with a [package] only
BaseManifest ==
    [cargo_features |-> {"workspace-inheritance"}, project |-> None,
     package |-> Some(BaseProject), workspace |-> None, dependencies |-> None,
     dev_dependencies |-> None, dev_dependencies2 |-> None, build_dependencies |-> None,
     build_dependencies2 |-> None, target |-> None, replace |-> None, patch |-> None,
     badges |-> None, profile |-> None, lib |-> None, bin |-> None, example |-> None,
     test |-> None, bench |-> None, features |-> None]

\* [workspace.package] with every field, and without any
FullInheritable ==
    [k \in InheritableKeys \cup {"dependencies", "ws_root"} |->
        IF k = "ws_root" THEN <<>>
        ELSE IF k = "dependencies" THEN None
        ELSE Some(WorkspaceValue(k))]

\* [workspace.dependencies] of the root document
WorkspaceDependencies ==
    [k \in {"a", "b"} |->
        IF k = "a" THEN Simple(VersionPlain)
        ELSE DetailedDep([DetailedDefault EXCEPT !.path = Some(PathBar),
                                                 !.features = Some(<<FeatA>>)])]

\* TomlWorkspace
TomlWorkspace(package, dependencies, resolver) ==
    [package |-> package, dependencies |-> dependencies, resolver |-> resolver]

\* InheritableFields of a loaded root document
LoadedInheritable(package, dependencies) ==
    [package EXCEPT !.ws_root = WorkspaceRoot, !.dependencies = dependencies]

\* what lies outside the document: where it is, the root document, the collaborators
BaseEnv ==
    [source_id |-> SourceId_for_path(PackageRoot), package_root |-> PackageRoot,
     root_path |-> WorkspaceRoot, root_doc |-> "root",
     inheritable |-> Some(LoadedInheritable(FullInheritable, Some(WorkspaceDependencies))),
     find_root |-> "found", targets |-> "ok", custom_build |-> FALSE, summary |-> "ok",
     feature_gate |-> "ok", root_readme |-> None, package_readme |-> None]

SetProject(m, field, value) == [m EXCEPT !.package = Some([Unwrap(@) EXCEPT ![field] = value])]

\* the document with `field` declared as `mw`
Declare(m, field, mw) ==
    IF field = "version" THEN SetProject(m, field, mw)
    ELSE IF field = "badges" THEN [m EXCEPT !.badges = Some(mw)]
    ELSE SetProject(m, field, Some(mw))

\* the document with the fields of `inheriting` declared { workspace = true }
\* and the other fields declared with a value, or left out
RECURSIVE DeclareAll(_, _, _, _)
DeclareAll(m, inheriting, others, i) ==
    IF i > Len(InheritableOrder) THEN m
    ELSE LET f == InheritableOrder[i]
         IN  DeclareAll(IF f \in inheriting THEN Declare(m, f, WorkspaceField(TRUE))
                        ELSE IF others = "defined" THEN Declare(m, f, Defined(OwnValue(f)))
                        ELSE m,
                        inheriting, others, i + 1)

\* the ways a document finds its workspace root
Worlds == {"root", "member-path", "member-found", "member-none", "member-not-a-root",
           "member-empty-root", "member-readme-file"}

WorldManifest(m, world) ==
    IF world = "root"
    THEN [m EXCEPT !.workspace = Some(TomlWorkspace(Some(FullInheritable),
                                                    Some(WorkspaceDependencies), None))]
    ELSE IF world \in {"member-path", "member-not-a-root"}
    THEN SetProject(m, "workspace", Some(<<"..">>))
    ELSE m

WorldEnv(e, world) ==
    IF world = "member-none" THEN [e EXCEPT !.find_root = "none"]
    ELSE IF world = "member-not-a-root" THEN [e EXCEPT !.root_doc = "member"]
    ELSE IF world = "member-empty-root"
    THEN [e EXCEPT !.inheritable = Some(LoadedInheritable(InheritableDefault, None))]
    ELSE IF world = "member-readme-file"
    THEN [e EXCEPT !.inheritable = Some(LoadedInheritable(InheritableDefault, None)),
                   !.root_readme = Some(<<"README.md">>)]
    ELSE e

\* the platforms a document has tables for
Platforms == {PlatformOrder[i] : i \in 2..(1 + MaxPlatforms)}

EmptyPlatform == TomlPlatform(None, None, None, None, None)

Table(name, td) == [k \in {name} |-> td]

\* the document with `name = td` added to a table: place is <<platform, table>>,
\* the platform "" for the tables of the document itself
AddEntry(m, place, name, td) ==
    IF place[1] = ""
    THEN [m EXCEPT ![place[2]] = Some(Insert(UnwrapOr(@, EmptyMap), name, td))]
    ELSE LET target == UnwrapOr(m.target, EmptyMap)
             platform == IF place[1] \in DOMAIN target THEN target[place[1]] ELSE EmptyPlatform
         IN  [m EXCEPT !.target =
                 Some(Insert(target, place[1],
                             [platform EXCEPT ![place[2]] =
                                 Some(Insert(UnwrapOr(@, EmptyMap), name, td))]))]

InheritedEntry == WorkspaceDep(TomlWorkspaceDependency(TRUE, None, None))

\* where an entry that requests inheritance is put, if anywhere
InheritingPlaces == {<<>>, <<"", "dependencies">>, <<"cfg(unix)", "build_dependencies">>}

InitialLocal ==
    /\ pc = "start"
    /\ cargo_features = {}
    /\ workspace_config = None
    /\ inherit_cell = None
    /\ loads = 0
    /\ requests = 0
    /\ deps = <<>>
    /\ processed = <<>>
    /\ platform_i = 0
    /\ resolved = None
    /\ passResult = None
    /\ document = None
    /\ warnings = <<>>
    /\ nested_paths = <<>>
    /\ IdleDep
    /\ IdleMerge
    /\ IdleValidate

\* the subsets of S with at most n elements
RECURSIVE SubsetsUpTo(_, _)
SubsetsUpTo(S, n) ==
    IF n = 0 THEN {{}}
    ELSE SubsetsUpTo(S, n - 1) \cup {fs \cup {x} : fs \in SubsetsUpTo(S, n - 1), x \in S}

\* one field for each step of the pass that resolves fields, and the fields
\* whose inherited value is computed from the one of the root
SeveralInheriting ==
    {"version", "edition", "rust_version", "exclude", "description", "readme",
     "license_file", "badges", "publish"}

\* the fields that inherit: any one field, or up to MaxInheriting of SeveralInheriting
InheritingSets ==
    {{f} : f \in InheritableKeys} \cup SubsetsUpTo(SeveralInheriting, MaxInheriting)

\* documents whose fields and entries request inheritance
InitInheritance ==
    \E inheriting \in InheritingSets,
       others \in {"absent", "defined"}, world \in Worlds, place \in InheritingPlaces,
       gate \in {{}, {"workspace-inheritance"}} :
        /\ me = LET m1 == WorldManifest(DeclareAll(BaseManifest, inheriting, others, 1), world)
                    m2 == IF place = <<>> THEN m1 ELSE AddEntry(m1, place, "a", InheritedEntry)
                IN  [m2 EXCEPT !.cargo_features = gate]
        /\ env = WorldEnv(BaseEnv, world)

\* declarations of one dependency from different sources
FromPathFoo == DetailedDep([DetailedDefault EXCEPT !.path = Some(PathFoo)])

FromPathBar == DetailedDep([DetailedDefault EXCEPT !.path = Some(PathBar)])

FromGit == DetailedDep([DetailedDefault EXCEPT !.git = Some(GitUrlPlain)])

Renamed ==
    DetailedDep([DetailedDefault EXCEPT !.version = Some(VersionPlain), !.package = Some("other")])

\* the tables of a document that hold dependencies the pass pushes to cx.deps:
\* its own three, the three of the first platform, `dependencies` of the others
PlaceOrder ==
    <<<<"", "dependencies">>, <<"", "dev_dependencies">>, <<"", "build_dependencies">>,
      <<"cfg(unix)", "dependencies">>, <<"cfg(unix)", "build_dependencies">>,
      <<"cfg(unix)", "dev_dependencies">>>>
        \o [i \in 1..(MaxPlatforms - 1) |-> <<PlatformOrder[i + 2], "dependencies">>]

\* the document with, in each place, the entry `a` the choice for the place names
RECURSIVE AddOccurrences(_, _, _)
AddOccurrences(m, choice, i) ==
    IF i > Len(PlaceOrder) THEN m
    ELSE AddOccurrences(IF choice[i] = None THEN m
                        ELSE AddEntry(m, PlaceOrder[i], "a", Unwrap(choice[i])),
                        choice, i + 1)

\* documents that declare `a` in several tables
InitSources ==
    \E first \in Opt({FromPathFoo, FromPathBar, FromGit, Renamed}),
       rest \in [2..Len(PlaceOrder) -> Opt({FromPathFoo, FromGit})] :
        /\ me = AddOccurrences(BaseManifest,
                               [i \in 1..Len(PlaceOrder) |-> IF i = 1 THEN first ELSE rest[i]], 1)
        /\ env = BaseEnv

ReplaceTables ==
    {None, Some(Table("a:1.0.0", FromGit)), Some(Table("a:1.0.0", Simple(VersionPlain))),
     Some(Table("b", FromGit)), Some(Table("not a spec", FromGit)),
     Some(Table("a:1.0.0", InheritedEntry)), Some(Table("b", Simple(VersionPlain))),
     Some(Table("b", InheritedEntry)),
     Some(Insert(Table("a:1.0.0", FromGit), "b", FromPathFoo)),
     Some(Insert(Table("a:1.0.0", FromPathFoo),
                 "https://example.com/index#a:2.0.0", FromGit))}

PatchTables ==
    {None, Some(Table("crates-io", Table("a", FromGit))),
     Some(Table("alt", Table("b", FromPathFoo))),
     Some(Table("not a url", Table("a", FromGit))),
     Some(Table("crates-io", Table("a", InheritedEntry)))}

\* documents with [replace] and [patch], and two tables that may disagree on `a`
InitReplacePatch ==
    \E r \in ReplaceTables, q \in PatchTables, x \in {FromPathFoo, FromGit},
       y \in {FromPathFoo, FromPathBar} :
        /\ me = [AddEntry(AddEntry(AddEntry(BaseManifest, <<"", "dependencies">>, "a", x),
                                   <<"cfg(unix)", "dependencies">>, "a", y),
                          <<"", "dev_dependencies">>, "b", FromGit)
                    EXCEPT !.replace = r, !.patch = q]
        /\ env = BaseEnv

\* where a declaration can stand: a table the pass resolves, [replace],
\* [patch], or [workspace.dependencies] with an entry that inherits it
DeclarationPlaces ==
    {<<"", "dependencies">>, <<"", "dev_dependencies">>, <<"", "dev_dependencies2">>,
     <<"", "build_dependencies">>, <<"", "build_dependencies2">>,
     <<"cfg(unix)", "dependencies">>, <<"cfg(unix)", "build_dependencies">>,
     <<"cfg(unix)", "dev_dependencies2">>, <<"", "replace">>, <<"", "patch">>,
     <<"", "workspace">>}

Declared(m, place, d) ==
    IF place[2] = "replace" THEN [m EXCEPT !.replace = Some(Table("a:1.0.0", d))]
    ELSE IF place[2] = "patch" THEN [m EXCEPT !.patch = Some(Table("crates-io", Table("a", d)))]
    ELSE IF place[2] = "workspace"
    THEN [AddEntry(m, <<"", "dependencies">>, "a", InheritedEntry)
             EXCEPT !.workspace = Some(TomlWorkspace(None, Some(Table("a", d)), None))]
    ELSE AddEntry(m, place, "a", d)

\* documents with one declaration, of every source shape
InitDeclarations ==
    \E shape \in SourceShapes, f \in {None, Some(<<FeatSlash>>)}, place \in DeclarationPlaces :
        /\ me = Declared(BaseManifest, place, DetailedDep([shape EXCEPT !.features = f]))
        /\ env = BaseEnv

\* a declaration in a table the other spelling of the table hides
InitShadowed ==
    \E shape \in SourceShapesSmall, hidden \in {"dev_dependencies2", "build_dependencies2"} :
        /\ me = AddEntry(AddEntry(BaseManifest, <<"", hidden>>, "a", DetailedDep(shape)),
                         <<"", IF hidden = "dev_dependencies2" THEN "dev_dependencies"
                               ELSE "build_dependencies">>, "b", Simple(VersionPlain))
        /\ env = BaseEnv

Case(m, e) == [me |-> m, env |-> e]

\* documents the pass rejects at its start, or by a collaborator
HeaderCases ==
    {Case([BaseManifest EXCEPT !.project = p, !.package = q], BaseEnv) :
        p \in Opt({[BaseProject EXCEPT !.name = "project"]}), q \in Opt({BaseProject})}
    \cup {Case(SetProject(BaseManifest, "name", n), BaseEnv) : n \in {"", "bad name"}}
    \cup {Case(SetProject(WorldManifest(BaseManifest, "root"), "workspace", Some(<<"..">>)),
               BaseEnv)}
    \cup {Case(SetProject(SetProject(BaseManifest, "metabuild", mb), "links", l),
               [BaseEnv EXCEPT !.targets = t, !.custom_build = cb, !.summary = y,
                               !.feature_gate = g]) :
            mb \in Opt({<<"mb">>}), l \in Opt({"z"}), t \in {"ok", "err"}, cb \in BOOLEAN,
            y \in {"ok", "err"}, g \in {"ok", "err"}}
    \cup {Case([SetProject(BaseManifest, "metabuild", Some(<<"mb">>))
                   EXCEPT !.cargo_features = {"metabuild"}], BaseEnv)}
    \cup {Case([SetProject(BaseManifest, "resolver", r)
                   EXCEPT !.workspace = Some(TomlWorkspace(None, None, w))], BaseEnv) :
            r \in Opt({"2", "3"}), w \in Opt({"1"})}

\* editions and minimum supported versions
VersionCases ==
    {Case(SetProject(SetProject(BaseManifest, "edition", ed), "rust_version", rv), BaseEnv) :
        ed \in Opt({Defined("2015"), Defined("2018"), Defined("2021"), Defined("2024"),
                    WorkspaceField(FALSE)}),
        rv \in Opt({Defined(<<"1", ".", "5", "6">>), Defined(<<"1", ".", "3", "0">>),
                    Defined(<<"1">>), Defined(<<"2", ".", "0">>),
                    Defined(<<"^", "1", ".", "5", "6">>), Defined(<<"1", ".", ".", "2">>),
                    WorkspaceField(FALSE)})}
    \cup {Case(SetProject(BaseManifest, "version", WorkspaceField(FALSE)), BaseEnv)}

\* profiles, publish, the two license fields, the root document out of reach
TailCases ==
    {Case([SetProject(SetProject(SetProject(BaseManifest, "publish", pb), "license", lc),
                      "license_file", Some(Defined(OwnValue("license_file"))))
              EXCEPT !.profile = pr], e) :
        pb \in Opt({Defined(Tagged("Bool", <<"false">>)), Defined(Tagged("Bool", <<"true">>)),
                    Defined(Tagged("VecString", <<"alt">>)), WorkspaceField(TRUE),
                    WorkspaceField(FALSE)}),
        lc \in Opt({Defined(OwnValue("license"))}),
        pr \in {None, Some(Table(<<"d", "e", "v">>, EmptyProfile)),
                Some(Table(NameDebug, EmptyProfile)),
                Some([k \in {<<"d", "e", "v">>, NameTest} |->
                        [EmptyProfile EXCEPT !.panic =
                            Some(IF k = NameTest THEN "abort" ELSE "bogus")]]),
                Some(Table(NameTest, [EmptyProfile EXCEPT !.build_override =
                                         Some([EmptyProfile EXCEPT !.rpath = Some(TRUE)])]))},
        e \in {BaseEnv, [BaseEnv EXCEPT !.find_root = "error"],
               [BaseEnv EXCEPT !.root_doc = "unreadable"]}}
    \cup {Case(SetProject(Declare(BaseManifest, "description", WorkspaceField(TRUE)),
                          "workspace", Some(w)), BaseEnv) :
            w \in {<<"..">>, <<"..", "..">>, <<"elsewhere">>, <<".", "..">>}}

\* tables in both spellings, a platform that does not parse, a name that is not one
TableCases ==
    {Case(AddEntry(AddEntry(AddEntry(BaseManifest, <<"", t>>, "a", FromGit),
                            <<pl, u>>, "b", FromPathFoo),
                   <<"cfg(unix)", "dev_dependencies">>, n, Simple(VersionPlain)), BaseEnv) :
        t \in {"dev_dependencies", "build_dependencies"},
        u \in {"dev_dependencies", "dev_dependencies2", "build_dependencies2"},
        pl \in {"", "cfg(unix)", "cfg("}, n \in {"a", "bad name"}}

InitStructure ==
    \E c \in HeaderCases \cup VersionCases \cup TailCases \cup TableCases :
        /\ me = c.me
        /\ env = c.env

\* entries of [workspace.dependencies] an entry of a member can inherit;
\* none is optional: the document of the root was read before
ExpansionBases ==
    {Simple(VersionPlain),
     DetailedDep([DetailedDefault EXCEPT !.version = Some(VersionPlain)]),
     DetailedDep([DetailedDefault EXCEPT !.version = Some(VersionPlain),
                                         !.features = Some(<<FeatA>>),
                                         !.optional = Some(FALSE)]),
     DetailedDep([DetailedDefault EXCEPT !.path = Some(PathBar),
                                         !.features = Some(<<FeatA, FeatSlash>>)])}

\* the features and the optional an inheriting entry declares itself
LocalFeatures == {None, Some(<<>>), Some(<<FeatA>>), Some(<<FeatSlash, FeatA>>)}

LocalOptional == {None, Some(FALSE), Some(TRUE)}

\* documents with an entry that inherits and adds features or optional
InitExpansion ==
    \E base \in ExpansionBases, lf \in LocalFeatures, lo \in LocalOptional,
       place \in InheritingPlaces \ {<<>>}, world \in {"root", "member-found"} :
        /\ me = LET entry == WorkspaceDep(TomlWorkspaceDependency(TRUE, lf, lo))
                    m1 == AddEntry(BaseManifest, place, "a", entry)
                IN  [m1 EXCEPT !.cargo_features = {"workspace-inheritance"},
                               !.workspace =
                                  IF world = "root"
                                  THEN Some(TomlWorkspace(None, Some(Table("a", base)), None))
                                  ELSE None]
        /\ env = [BaseEnv EXCEPT !.inheritable =
                     Some(LoadedInheritable(InheritableDefault, Some(Table("a", base))))]

\* another spelling of the directory PathFoo names from the package root
PathFooAgain == <<".", "..", "member", "..", "foo">>

FromPathFooAgain == DetailedDep([DetailedDefault EXCEPT !.path = Some(PathFooAgain)])

\* documents with path dependencies in several tables, spelled in several
\* ways, local and inherited, read from a directory or from a registry
InitPaths ==
    \E x \in {FromPathFoo, FromPathFooAgain, FromPathBar},
       y \in {FromPathFoo, FromPathFooAgain, InheritedEntry},
       q \in {None, Some(Table("crates-io", Table("a", FromPathBar)))},
       r \in {None, Some(Table("a:1.0.0", FromPathFooAgain))},
       s \in ConsumerSources :
        /\ me = [AddEntry(AddEntry(BaseManifest, <<"", "dependencies">>, "a", x),
                          <<"cfg(unix)", "dev_dependencies">>, "b", y)
                    EXCEPT !.cargo_features = {"workspace-inheritance"},
                           !.patch = q, !.replace = r]
        /\ env = [BaseEnv EXCEPT !.source_id = s]

\* a declaration with both git and path set, which to_dependency refuses
GitAndPath == DetailedDep([DetailedDefault EXCEPT !.git = Some(GitUrlPlain), !.path = Some(PathFoo)])

OrderPlaces ==
    {<<"", "dependencies">>, <<"", "dev_dependencies">>, <<"", "dev_dependencies2">>,
     <<"", "build_dependencies">>, <<"cfg(unix)", "dependencies">>,
     <<"cfg(unix)", "build_dependencies">>, <<"cfg(windows)", "dependencies">>,
     <<"cfg(windows)", "dev_dependencies">>}

\* documents with several entries in one table and in several tables, written
\* in other than key order, some of them refused
InitOrder ==
    \E x \in {Simple(VersionPlain), GitAndPath}, y \in {Simple(VersionPlain), GitAndPath},
       z \in {Simple(VersionPlain), GitAndPath}, k \in {"b", "bad name"},
       p1 \in OrderPlaces, p2 \in OrderPlaces :
        /\ me = AddEntry(AddEntry(AddEntry(BaseManifest, p1, "b", x), p2, k, z), p1, "a", y)
        /\ env = BaseEnv

Init ==
    /\ InitialLocal
    /\ \/ InitInheritance
       \/ InitSources
       \/ InitReplacePatch
       \/ InitDeclarations
       \/ InitShadowed
       \/ InitStructure
       \/ InitExpansion
       \/ InitPaths
       \/ InitOrder

Spec == Init /\ [][Next]_vars

-----------------------------------------------------------------------------
(* SpecRead: read_manifest_from_str on the contents of a document *)

\* a declaration as a document writes it
Written(td) ==
    IF td.tag = "Simple" THEN WrittenStr(Unwrap(td.simple))
    ELSE IF td.tag = "Detailed"
    THEN WrittenMap(IntermediateDependency(None, Unwrap(td.detailed)))
    ELSE WrittenMap(IntermediateDependency(Some(Unwrap(td.ws).workspace),
                        [DetailedDefault EXCEPT !.features = Unwrap(td.ws).features,
                                                !.optional = Unwrap(td.ws).optional]))

WrittenTable(table) ==
    IF table = None THEN None
    ELSE Some([k \in DOMAIN Unwrap(table) |-> Written(Unwrap(table)[k])])

\* the document that writes the declarations of `m`
WrittenManifest(m) ==
    [f \in DOMAIN m |->
        IF f \in TableFields \cup {"replace"} THEN WrittenTable(m[f])
        ELSE IF f = "target" /\ IsSome(m[f])
        THEN Some([k \in DOMAIN Unwrap(m[f]) |->
                     [t \in TableFields |-> WrittenTable(Unwrap(m[f])[k][t])]])
        ELSE IF f = "patch" /\ IsSome(m[f])
        THEN Some([k \in DOMAIN Unwrap(m[f]) |-> Unwrap(WrittenTable(Some(Unwrap(m[f])[k])))])
        ELSE IF f = "workspace" /\ IsSome(m[f])
        THEN Some([Unwrap(m[f]) EXCEPT !.dependencies = WrittenTable(@)])
        ELSE m[f]]

\* the contents of a document: whether it is TOML, the sections that hold a
\* cargo-features key, the keys no field reads, and what it writes
Contents(m, parses, misplaced, unused) ==
    [parses |-> parses, misplaced |-> misplaced, unused |-> unused, toml |-> WrittenManifest(m)]

PlainContents(m) == Contents(m, TRUE, {}, <<>>)

\* { workspace = false }, as an entry of a table
RefusingEntry == WorkspaceDep(TomlWorkspaceDependency(FALSE, None, None))

\* a document with [workspace] and no package
VirtualBase ==
    [BaseManifest EXCEPT !.package = None,
                         !.workspace = Some(TomlWorkspace(None, None, None))]

\* the sections of a package, by the field of TomlManifest that holds them
PackageSections ==
    {"lib", "bin", "example", "test", "bench", "dependencies", "dev_dependencies",
     "dev_dependencies2", "build_dependencies", "build_dependencies2", "features", "target",
     "badges"}

WithSection(m, section) ==
    IF section \in TableFields THEN AddEntry(m, <<"", section>>, "a", Simple(VersionPlain))
    ELSE IF section = "target"
    THEN AddEntry(m, <<"cfg(unix)", "dependencies">>, "a", FromPathFoo)
    ELSE IF section = "badges" THEN [m EXCEPT !.badges = Some(Defined(OwnValue("badges")))]
    ELSE [m EXCEPT ![section] = Some(section)]

RECURSIVE WithSections(_, _)
WithSections(m, sections) ==
    IF sections = {} THEN m
    ELSE LET x == CHOOSE x \in sections : TRUE
         IN  WithSections(WithSection(m, x), sections \ {x})

ReadReplaceTables ==
    {None, Some(EmptyMap), Some(Table("a:1.0.0", FromPathFoo)), Some(Table("b", FromGit)),
     Some(Table("a:1.0.0", InheritedEntry))}

ReadPatchTables ==
    {None, Some(EmptyMap), Some(Table("crates-io", Table("a", FromPathBar))),
     Some(Table("not a url", Table("a", FromGit)))}

ReadProfiles ==
    {None, Some(Table(NameDebug, EmptyProfile)),
     Some(Table(NameTest, [EmptyProfile EXCEPT !.panic = Some("abort")]))}

\* virtual documents: with and without [workspace], with the sections of a package
InitReadVirtual ==
    \E sections \in SubsetsUpTo(PackageSections, 1) \cup {{"lib", "badges"}, {"target", "features"}},
       r \in ReadReplaceTables, q \in ReadPatchTables, pr \in ReadProfiles,
       w \in {None, Some(TomlWorkspace(None, None, None)),
              Some(TomlWorkspace(None, None, Some("3"))),
              Some(TomlWorkspace(Some(FullInheritable), Some(WorkspaceDependencies), Some("2")))} :
        /\ document = Some(PlainContents(
                          [WithSections(VirtualBase, sections)
                              EXCEPT !.replace = r, !.patch = q, !.profile = pr, !.workspace = w]))
        /\ env = BaseEnv

\* what can be wrong with a package before the pass comes to [replace]
EarlierFailures == {"none", "name", "edition", "dependency", "platform"}

WithFailure(m, failure) ==
    IF failure = "name" THEN SetProject(m, "name", "bad name")
    ELSE IF failure = "edition" THEN SetProject(m, "edition", Some(Defined("2024")))
    ELSE IF failure = "dependency"
    THEN AddEntry(m, <<"", "dependencies">>, "b",
                  DetailedDep([DetailedDefault EXCEPT !.git = Some(GitUrlPlain),
                                                      !.path = Some(PathFoo),
                                                      !.registry = Some("alt")]))
    ELSE IF failure = "platform"
    THEN AddEntry(m, <<"cfg(", "dependencies">>, "b", Simple(VersionPlain))
    ELSE m

\* packages with [replace] and [patch], and what the pass meets before them
InitReadReplacePatch ==
    \E r \in ReadReplaceTables, q \in ReadPatchTables, failure \in EarlierFailures,
       world \in {"root", "member-found"} :
        /\ document = Some(PlainContents(
                          [WithFailure(WorldManifest(
                               AddEntry(BaseManifest, <<"cfg(unix)", "dev_dependencies">>, "a",
                                        FromGit), world), failure)
                              EXCEPT !.replace = r, !.patch = q]))
        /\ env = WorldEnv(BaseEnv, world)

\* the section a field and its marker are written in, with the other section
\* absent or present
SectionChoices == {"package", "project", "package-hidden", "project-over-package"}

InSection(m, choice) ==
    IF choice = "package" THEN m
    ELSE IF choice = "project" THEN [m EXCEPT !.project = m.package, !.package = None]
    ELSE IF choice = "package-hidden"
    THEN [m EXCEPT !.project = Some([BaseProject EXCEPT !.name = "project"])]
    ELSE [m EXCEPT !.project = m.package, !.package = Some(BaseProject)]

ReadWorlds == {"root", "member-found", "member-none"}

Gates == {{}, {"workspace-inheritance"}}

\* packages with one field that refuses or requests inheritance
InitReadFields ==
    \E f \in InheritableKeys, mark \in BOOLEAN, choice \in SectionChoices,
       world \in ReadWorlds, gate \in Gates :
        /\ document = Some(PlainContents(
                          [InSection(WorldManifest(Declare(BaseManifest, f, WorkspaceField(mark)),
                                                   world), choice)
                              EXCEPT !.cargo_features = gate]))
        /\ env = WorldEnv(BaseEnv, world)

\* packages with one entry that refuses inheritance, in every table
InitReadEntries ==
    \E place \in DeclarationPlaces \cup {<<"", "workspace-only">>},
       td \in {RefusingEntry, InheritedEntry,
               WorkspaceDep(TomlWorkspaceDependency(FALSE, Some(<<FeatA>>), Some(TRUE))),
               DetailedDep([DetailedDefault EXCEPT !.version = Some(VersionPlain),
                                                   !.optional = Some(TRUE)])},
       world \in ReadWorlds, gate \in Gates :
        /\ document = Some(PlainContents(
                          [(IF place[2] = "workspace-only"
                            THEN [BaseManifest EXCEPT !.workspace =
                                     Some(TomlWorkspace(None, Some(Table("a", td)), None))]
                            ELSE WorldManifest(Declared(BaseManifest, place, td), world))
                              EXCEPT !.cargo_features = gate]))
        /\ env = WorldEnv(BaseEnv, world)

\* contents that are not TOML, keys in the wrong place, keys nothing reads,
\* packages without a target
InitReadContents ==
    \E m \in {BaseManifest, VirtualBase, InSection(BaseManifest, "project"),
              InSection(BaseManifest, "package-hidden"),
              [BaseManifest EXCEPT !.package = None]},
       parses \in BOOLEAN, misplaced \in SUBSET {"package", "project"},
       unused \in {<<>>, <<"package.foo">>, <<"package.foo", "profiles.debug">>},
       targets \in {"ok", "err", "none"} :
        /\ document = Some(Contents(m, parses, misplaced, unused))
        /\ env = [BaseEnv EXCEPT !.targets = targets]

InitRead ==
    /\ pc = "read"
    /\ me = None
    /\ cargo_features = {}
    /\ workspace_config = None
    /\ inherit_cell = None
    /\ loads = 0
    /\ requests = 0
    /\ deps = <<>>
    /\ processed = <<>>
    /\ platform_i = 0
    /\ resolved = None
    /\ passResult = None
    /\ warnings = <<>>
    /\ nested_paths = <<>>
    /\ IdleDep
    /\ IdleMerge
    /\ IdleValidate
    /\ \/ InitReadVirtual
       \/ InitReadReplacePatch
       \/ InitReadFields
       \/ InitReadEntries
       \/ InitReadContents

SpecRead == InitRead /\ [][NextRead]_vars

-----------------------------------------------------------------------------
(* SpecMerge: TomlProfile::merge on a pair of profiles *)

\* values a knob is given, in the order they are drawn
Samples(k) ==
    CASE k = "opt_level" -> <<"3", "s", "0">>
      [] k = "lto" -> <<Tagged("Bool", "true"), Tagged("String", "true"), Tagged("String", "thin")>>
      [] k = "codegen_backend" -> <<<<"c", "l", "_", "1">>, <<"l", "l", "-", "v">>, <<"l", "l", "v", "m">>>>
      [] k = "codegen_units" -> <<1, 16, 256>>
      [] k = "debug" -> <<Tagged("Bool", "true"), Tagged("U32", "2"), Tagged("Bool", "false")>>
      [] k = "split_debuginfo" -> <<"packed", "unpacked", "off">>
      [] k = "debug_assertions" -> <<TRUE, FALSE>>
      [] k = "rpath" -> <<TRUE, FALSE>>
      [] k = "panic" -> <<"abort", "bogus", "unwind">>
      [] k = "overflow_checks" -> <<TRUE, FALSE>>
      [] k = "incremental" -> <<TRUE, FALSE>>
      [] k = "dir_name" -> <<"out", "custom", "release">>
      [] k = "inherits" -> <<"debug", "dev", "release">>
      [] k = "strip" -> <<Tagged("Bool", "true"), Tagged("String", "symbols"), Tagged("String", "none")>>
      [] k = "rustflags" -> <<<<"-C", "debuginfo=1">>, <<>>, <<"-g">>>>

ValuesOf(k) ==
    {Samples(k)[i] : i \in 1..(IF Len(Samples(k)) < MaxKnobValues THEN Len(Samples(k))
                                                                 ELSE MaxKnobValues)}

WithKnob(profile, k, v) == [profile EXCEPT ![k] = Some(v)]

\* a profile with at most one knob set and no overrides
OneKnobProfiles ==
    {EmptyProfile} \cup UNION {{WithKnob(EmptyProfile, k, v) : v \in ValuesOf(k)} : k \in ScalarKnobs}

\* override nodes: plain ones, and ones that nest a further override
PlainNodes ==
    {EmptyProfile, WithKnob(EmptyProfile, "opt_level", "3")}
        \cup {WithKnob(EmptyProfile, "debug", v) : v \in ValuesOf("debug")}

NodeWithBuildOverride ==
    [EmptyProfile EXCEPT !.build_override = Some(WithKnob(EmptyProfile, "debug", Tagged("Bool", "true")))]

NodeWithPackage ==
    [EmptyProfile EXCEPT !.package =
        Some([k \in {"*"} |-> WithKnob(EmptyProfile, "opt_level", "3")])]

PackageNodes == PlainNodes \cup {NodeWithPackage}

BuildOverrideNodes ==
    PlainNodes \cup {NodeWithBuildOverride, WithKnob(EmptyProfile, "lto", Tagged("Bool", "true"))}

PackageMaps == UNION {[keys -> PackageNodes] : keys \in SUBSET PackageSpecs}

\* profiles that only carry overrides
OverrideProfiles ==
    {[EmptyProfile EXCEPT !.package = pk, !.build_override = bo] :
        pk \in Opt(PackageMaps), bo \in Opt(BuildOverrideNodes)}

\* profiles with a knob and an override
MixedProfiles ==
    {[q EXCEPT !.package = pk, !.build_override = bo] :
        q \in OneKnobProfiles,
        pk \in {None, Some([k \in {"*"} |-> WithKnob(EmptyProfile, "opt_level", "3")])},
        bo \in {None, Some(WithKnob(EmptyProfile, "debug", Tagged("Bool", "true")))}}

MergeProfiles == OneKnobProfiles \cup OverrideProfiles \cup MixedProfiles

InitMerge ==
    /\ pc = "merge"
    /\ \E a \in MergeProfiles, b \in MergeProfiles :
         /\ selfProfile = Some(a)
         /\ otherProfile = Some(b)
    /\ merged = None
    /\ pool = {}
    /\ warnings = <<>>
    /\ nested_paths = <<>>
    /\ cargo_features = {}
    /\ IdleDep
    /\ IdleValidate
    /\ IdlePass

\* self.merge(&profile)
Merge ==
    /\ pc = "merge"
    /\ merged' = Some(merge(Unwrap(selfProfile), Unwrap(otherProfile)))
    /\ pc' = "merged"
    /\ UNCHANGED <<selfProfile, otherProfile, pool, warnings, nested_paths, cargo_features,
                   depVars, validateVars, passVars>>

NextMerge == Merge

SpecMerge == InitMerge /\ [][NextMerge]_vars

-----------------------------------------------------------------------------
(* SpecChain: merges among a set of profiles and the profiles they produce *)

\* profiles whose override nodes nest nothing and set none of panic, lto, rpath
ChainProfiles ==
    {[EmptyProfile EXCEPT
         !.opt_level = Some("3"),
         !.package = Some([k \in {"foo"} |-> WithKnob(EmptyProfile, "debug", Tagged("Bool", "true"))]),
         !.build_override = Some(WithKnob(EmptyProfile, "opt_level", "3"))],
     [EmptyProfile EXCEPT
         !.panic = Some("abort"),
         !.package = Some([k \in {"foo", "*"} |->
                              IF k = "foo" THEN WithKnob(EmptyProfile, "opt_level", "3")
                              ELSE WithKnob(EmptyProfile, "debug", Tagged("Bool", "true"))])],
     [EmptyProfile EXCEPT
         !.opt_level = Some("s"),
         !.lto = Some(Tagged("String", "thin")),
         !.package = Some([k \in {"*"} |-> WithKnob(EmptyProfile, "opt_level", "s")]),
         !.build_override = Some(WithKnob(EmptyProfile, "debug", Tagged("U32", "2")))],
     [EmptyProfile EXCEPT
         !.inherits = Some("dev"),
         !.rpath = Some(TRUE),
         !.build_override = Some(WithKnob(WithKnob(EmptyProfile, "codegen_units", 16),
                                          "opt_level", "s"))],
     [EmptyProfile EXCEPT
         !.package = Some([k \in {"foo"} |->
                              WithKnob(WithKnob(EmptyProfile, "opt_level", "s"),
                                       "debug", Tagged("Bool", "false"))])]}

InitChain ==
    /\ pc = "pool"
    /\ \E a \in ChainProfiles, b \in ChainProfiles, c \in ChainProfiles : pool = {a, b, c}
    /\ selfProfile = None
    /\ otherProfile = None
    /\ merged = None
    /\ warnings = <<>>
    /\ nested_paths = <<>>
    /\ cargo_features = {}
    /\ IdleDep
    /\ IdleValidate
    /\ IdlePass

\* a.merge(&b) for two of the profiles at hand; the profile a becomes joins them
MergeInPool ==
    /\ pc = "pool"
    /\ Cardinality(pool) < MaxPool
    /\ \E a \in pool, b \in pool :
         /\ selfProfile' = Some(a)
         /\ otherProfile' = Some(b)
         /\ merged' = Some(merge(a, b))
         /\ pool' = pool \cup {merge(a, b)}
    /\ UNCHANGED <<pc, warnings, nested_paths, cargo_features, depVars, validateVars, passVars>>

NextChain == MergeInPool

SpecChain == InitChain /\ [][NextChain]_vars

-----------------------------------------------------------------------------
(* SpecValidate: TomlProfile::validate on a named profile *)

ProfileNames ==
    {<<"d", "e", "v">>, <<"r", "e", "l", "e", "a", "s", "e">>, NameDoc, NameTest, NameBench,
     <<"m", "y", "_", "p", "-", "1">>, NameDebug, <<"D", "e", "b", "u", "g">>,
     NameBuildOverride, <<"c", "a", "r", "g", "o", "-", "x">>, <<"T", "m", "p">>,
     <<"é", "1">>, <<"a", ".", "b">>, <<>>}

\* names for the profiles with overrides: a built-in one, one with a warning, a bad one
OverrideProfileNames == {<<"d", "e", "v">>, NameTest, <<"a", ".", "b">>}

GateSets == SUBSET {"codegen-backend", "profile-rustflags"}

\* override nodes: one for each knob an override must not set, and some it may
ValidateNodes ==
    {EmptyProfile, NodeWithPackage, NodeWithBuildOverride,
     WithKnob(EmptyProfile, "panic", "abort"),
     WithKnob(EmptyProfile, "lto", Tagged("Bool", "true")),
     WithKnob(EmptyProfile, "rpath", TRUE),
     WithKnob(EmptyProfile, "opt_level", "3"),
     WithKnob(EmptyProfile, "debug", Tagged("Bool", "true")),
     WithKnob(EmptyProfile, "rustflags", <<"-g">>),
     WithKnob(EmptyProfile, "codegen_backend", <<"c", "l", "_", "1">>),
     WithKnob(EmptyProfile, "codegen_backend", <<"l", "l", "-", "v">>)}

ValidatePackageMaps == UNION {[keys -> ValidateNodes] : keys \in SUBSET PackageSpecs}

ValidateBases ==
    {EmptyProfile, WithKnob(EmptyProfile, "panic", "abort"),
     WithKnob(EmptyProfile, "codegen_backend", <<"l", "l", "-", "v">>)}

InitValidateKnobs ==
    \E p \in OneKnobProfiles, n \in ProfileNames, f \in GateSets :
        /\ selfProfile = Some(p)
        /\ profileName = Some(n)
        /\ cargo_features = f

InitValidateOverrides ==
    \E base \in ValidateBases, pk \in Opt(ValidatePackageMaps), bo \in Opt(ValidateNodes),
       n \in OverrideProfileNames, f \in {{}, {"codegen-backend", "profile-rustflags"}} :
        /\ selfProfile = Some([base EXCEPT !.package = pk, !.build_override = bo])
        /\ profileName = Some(n)
        /\ cargo_features = f

\* the name with its first letter in upper case
Capitalised(name) ==
    [i \in DOMAIN name |->
        IF i = 1 /\ \E j \in DOMAIN LowerCase : LowerCase[j] = name[i]
        THEN UpperCase[CHOOSE j \in DOMAIN LowerCase : LowerCase[j] = name[i]]
        ELSE name[i]]

\* the reserved names and names close to them: another case, a longer name
ReservedNameCases ==
    LET words == ReservedProfileNames \cup {NameDebug, NameBuildOverride, NameCargo}
    IN  words \cup {Capitalised(w) : w \in words}
              \cup {w \o <<"x">> : w \in words}
              \cup {<<"x">> \o w : w \in words}
              \cup {<<"c", "a", "r", "-", "g", "o">>, <<"C", "A", "R", "G", "O", "_", "1">>,
                    <<"t", "m", "p", "!">>, <<"r", "u", "n", " ">>}

InitValidateNames ==
    \E p \in ValidateBases, n \in ReservedNameCases, f \in GateSets :
        /\ selfProfile = Some(p)
        /\ profileName = Some(n)
        /\ cargo_features = f

\* nodes that set both gated knobs, or one of them
GatedNodes ==
    {[EmptyProfile EXCEPT !.codegen_backend = b, !.rustflags = r] :
        b \in Opt({<<"c", "l", "_", "1">>, <<"l", "l", "-", "v">>}), r \in Opt({<<"-g">>})}

\* where a node sits in the profile validate is called on
GatePlaces == {"top", "build-override", "package"}

Placed(node, place) ==
    IF place = "top" THEN node
    ELSE IF place = "build-override" THEN [EmptyProfile EXCEPT !.build_override = Some(node)]
    ELSE [EmptyProfile EXCEPT !.package = Some([k \in {"foo"} |-> node])]

InitValidateGates ==
    \E node \in GatedNodes, place \in GatePlaces, f \in GateSets,
       n \in {<<"d", "e", "v">>, <<"a", ".", "b">>} :
        /\ selfProfile = Some(Placed(node, place))
        /\ profileName = Some(n)
        /\ cargo_features = f

\* a dir-name spelled like the profile's own name, one spelled otherwise
DirNameCases ==
    {[name |-> <<"r", "e", "l", "e", "a", "s", "e">>, dir_name |-> "release"],
     [name |-> <<"r", "e", "l", "e", "a", "s", "e">>, dir_name |-> "out"],
     [name |-> <<"m", "y", "_", "p", "-", "1">>, dir_name |-> "my_p-1"],
     [name |-> <<"m", "y", "_", "p", "-", "1">>, dir_name |-> ""],
     [name |-> NameTest, dir_name |-> "test"],
     [name |-> <<"a", ".", "b">>, dir_name |-> "a.b"],
     [name |-> NameDebug, dir_name |-> "debug"]}

DirNameBases ==
    {EmptyProfile, WithKnob(EmptyProfile, "inherits", "debug"),
     WithKnob(EmptyProfile, "panic", "bogus"), WithKnob(EmptyProfile, "panic", "abort"),
     WithKnob(EmptyProfile, "lto", Tagged("String", "true")),
     [EmptyProfile EXCEPT !.build_override = Some(WithKnob(EmptyProfile, "rpath", TRUE))],
     [EmptyProfile EXCEPT !.build_override = Some(WithKnob(EmptyProfile, "opt_level", "3"))],
     WithKnob(EmptyProfile, "rustflags", <<"-g">>)}

InitValidateDirName ==
    \E c \in DirNameCases, base \in DirNameBases, f \in GateSets :
        /\ selfProfile = Some(WithKnob(base, "dir_name", c.dir_name))
        /\ profileName = Some(c.name)
        /\ cargo_features = f

InitValidate ==
    /\ pc = "validate"
    /\ (InitValidateKnobs \/ InitValidateOverrides \/ InitValidateNames
           \/ InitValidateGates \/ InitValidateDirName)
    /\ validateResult = None
    /\ otherProfile = None
    /\ merged = None
    /\ pool = {}
    /\ warnings = <<>>
    /\ nested_paths = <<>>
    /\ IdleDep
    /\ IdlePass

\* profile.validate(name, features, warnings)
Validate ==
    /\ pc = "validate"
    /\ LET r == validate(Unwrap(selfProfile), Unwrap(profileName), cargo_features, warnings)
       IN  /\ validateResult' = Some(r)
           /\ warnings' = r.warnings
    /\ pc' = "validated"
    /\ UNCHANGED <<profileName, cargo_features, nested_paths, depVars, mergeVars, passVars>>

NextValidate == Validate

SpecValidate == InitValidate /\ [][NextValidate]_vars

-----------------------------------------------------------------------------
(* Properties of to_dependency, stated on the declaration and the result *)

Resolving == pc = "resolved"

\* the detailed declaration to_dependency is called on: the one written, or
\* for a bare version string the one built from it
TheDep ==
    IF dep.tag = "Simple" THEN [DetailedDefault EXCEPT !.version = dep.simple]
    ELSE Unwrap(dep.detailed)

TheResult == Unwrap(depResult)

TheError == Unwrap(TheResult.err)

SetCount(opts) == Cardinality({i \in 1..Len(opts) : IsSome(opts[i])})

SourceFieldCount(d) == SetCount(<<d.git, d.path, d.registry, d.registry_index>>)

GitDetailCount(d) == SetCount(<<d.branch, d.tag, d.rev>>)

\* a feature string a dependency's feature list may not hold
Misused(feature) ==
    \/ \E i \in 1..Len(feature) : feature[i] = "/"
    \/ /\ Len(feature) >= 4
       /\ SubSeq(feature, 1, 4) = <<"d", "e", "p", ":">>

HasMisused(d) ==
    /\ IsSome(d.features)
    /\ \E i \in 1..Len(Unwrap(d.features)) : Misused(Unwrap(d.features)[i])

GitKeyWithoutGit(d) == IsNone(d.git) /\ GitDetailCount(d) > 0

\* the checks made before the source fields are looked at both pass
ReachesSourceCheck(d) == ~GitKeyWithoutGit(d) /\ ~HasMisused(d)

SourceConflictError(e) ==
    /\ e.kind = "FieldConflict"
    /\ e.what \in {<<"git-or-registry">>, <<"registry-or-registry-index">>, <<"git-or-path">>}

\* the combinations of source fields the code rejects
Ambiguous(d) ==
    \/ IsSome(d.git) /\ SourceFieldCount(d) >= 2
    \/ IsSome(d.registry) /\ IsSome(d.registry_index)

\* C3 as stated, for the declarations that reach the source check: any two of
\* git, path, registry, registry-index set make to_dependency fail with the
\* field-conflict error and return no dependency; with at most one set no
\* field-conflict error is raised.
C3_AnyTwoSourceFieldsConflict ==
    Resolving /\ ReachesSourceCheck(TheDep) =>
        /\ SourceFieldCount(TheDep) >= 2 =>
              /\ ~TheResult.ok
              /\ TheResult.dep = None
              /\ SourceConflictError(TheError)
        /\ SourceFieldCount(TheDep) <= 1 =>
              (TheResult.ok \/ ~SourceConflictError(TheError))

\* C3 amended: once the git-only-key and feature-syntax checks have passed,
\* the source check fails with the field-conflict error, and no dependency is
\* returned, exactly when git is set with another source field or registry
\* and registry-index are both set; path with registry or with registry-index
\* is accepted and resolves to a path source; whatever the earlier checks say,
\* an ambiguous declaration never resolves.
C3_SourceConflict ==
    Resolving =>
        /\ Ambiguous(TheDep) => ~TheResult.ok /\ TheResult.dep = None
        /\ Ambiguous(TheDep) /\ ReachesSourceCheck(TheDep) => SourceConflictError(TheError)
        /\ ~Ambiguous(TheDep) => (TheResult.ok \/ ~SourceConflictError(TheError))
        /\ ~Ambiguous(TheDep) /\ IsSome(TheDep.path) /\ TheResult.ok =>
              Unwrap(TheResult.dep).source_id \in
                  {cx.source_id, SourceId_for_path(normalize_path(Join(cx.root, Unwrap(TheDep.path))))}

C3_Witness ==
    /\ Resolving
    /\ IsSome(TheDep.registry) /\ IsSome(TheDep.registry_index) /\ IsNone(TheDep.git)
    /\ ReachesSourceCheck(TheDep)
    /\ ~TheResult.ok
    /\ TheError = Error("FieldConflict", <<"registry-or-registry-index">>, depName)

CountKind(ws, kind) == Cardinality({i \in 1..Len(ws) : ws[i].kind = kind})

BothDefaultFeaturesSpellings(d) == IsSome(d.default_features) /\ IsSome(d.default_features2)

\* what a declaration without source fields must still satisfy to resolve
OtherChecksPass(d, kind, c) ==
    /\ GitDetailCount(d) = 0
    /\ ~HasMisused(d)
    /\ d.version # Some(VersionInvalid)
    /\ IsSome(d.public) => ("public-dependency" \in c.features /\ kind = None)
    /\ IsSome(d.artifact) =>
          /\ \A i \in 1..Len(Unwrap(d.artifact)) : Unwrap(d.artifact)[i] \in ArtifactKinds
          /\ d.target = Some("target") => kind = Some("Build")
    /\ IsNone(d.artifact) => IsNone(d.lib) /\ IsNone(d.target)

\* C5 as stated, for the declarations that resolve: with none of git, path,
\* registry, registry-index set the source is the default index; with version
\* absent too exactly one warning is appended; with version present the
\* missing-requirement warning is not emitted.
C5_ExactlyOneWarning ==
    Resolving /\ SourceFieldCount(TheDep) = 0 /\ TheResult.ok =>
        /\ Unwrap(TheResult.dep).source_id = SourceRec("DefaultIndex", "", <<>>, DefaultBranch)
        /\ IsNone(TheDep.version) => Len(warnings) = 1
        /\ IsSome(TheDep.version) => CountKind(warnings, "MissingRequirement") = 0

\* C5 amended: with none of git, path, registry, registry-index set, a
\* declaration that resolves has the default index as its source; with version
\* absent too it still resolves whenever its other checks pass, the
\* missing-requirement warning is appended exactly once, and the only other
\* warning a resolved one gets is the default-features alias warning, when both
\* spellings are set; with version present the missing-requirement warning is
\* not emitted.
C5_DefaultIndexAndMissingRequirement ==
    Resolving /\ SourceFieldCount(TheDep) = 0 =>
        /\ TheResult.ok =>
              Unwrap(TheResult.dep).source_id = SourceRec("DefaultIndex", "", <<>>, DefaultBranch)
        /\ IsNone(TheDep.version) =>
              /\ CountKind(warnings, "MissingRequirement") = 1
              /\ OtherChecksPass(TheDep, depKind, cx) => TheResult.ok
              /\ TheResult.ok =>
                    Len(warnings) = (IF BothDefaultFeaturesSpellings(TheDep) THEN 2 ELSE 1)
              /\ TheResult.ok /\ Len(warnings) = 2 => warnings[2].kind = "DeprecatedAlias"
        /\ IsSome(TheDep.version) => CountKind(warnings, "MissingRequirement") = 0

C5_Witness ==
    /\ Resolving
    /\ SourceFieldCount(TheDep) = 0
    /\ IsNone(TheDep.version)
    /\ TheResult.ok
    /\ warnings = <<Warning("MissingRequirement", <<>>, depName)>>
    /\ Unwrap(TheResult.dep).source_id.kind = "DefaultIndex"

\* C6: the git reference is decided by which of git, branch, tag, rev are set:
\* without git any of branch, tag, rev fails the resolution; with git and two
\* or more of them it fails; with git and exactly one the resolved reference
\* is that branch, tag or rev with its value; with git and none it is the
\* default branch.
C6_GitReference ==
    Resolving =>
        /\ IsNone(TheDep.git) /\ GitDetailCount(TheDep) >= 1 => ~TheResult.ok
        /\ IsSome(TheDep.git) /\ GitDetailCount(TheDep) >= 2 => ~TheResult.ok
        /\ IsSome(TheDep.git) /\ TheResult.ok =>
              /\ Unwrap(TheResult.dep).source_id.kind = "Git"
              /\ GitDetailCount(TheDep) = 1 /\ IsSome(TheDep.branch) =>
                    Unwrap(TheResult.dep).source_id.reference
                        = [kind |-> "Branch", value |-> Unwrap(TheDep.branch)]
              /\ GitDetailCount(TheDep) = 1 /\ IsSome(TheDep.tag) =>
                    Unwrap(TheResult.dep).source_id.reference
                        = [kind |-> "Tag", value |-> Unwrap(TheDep.tag)]
              /\ GitDetailCount(TheDep) = 1 /\ IsSome(TheDep.rev) =>
                    Unwrap(TheResult.dep).source_id.reference
                        = [kind |-> "Rev", value |-> Unwrap(TheDep.rev)]
              /\ GitDetailCount(TheDep) = 0 =>
                    Unwrap(TheResult.dep).source_id.reference.kind = "DefaultBranch"
        /\ IsSome(TheDep.git) /\ GitDetailCount(TheDep) <= 1 /\ ~TheResult.ok =>
              TheError # Error("FieldConflict", <<"branch-tag-rev">>, depName)

C6_Witness ==
    /\ Resolving
    /\ IsSome(TheDep.git) /\ IsSome(TheDep.rev) /\ GitDetailCount(TheDep) = 1
    /\ TheResult.ok
    /\ Unwrap(TheResult.dep).source_id.reference = [kind |-> "Rev", value |-> "abc123"]

FeatureError(e) == e.kind \in {"FeatureSlash", "FeatureDepPrefix"}

\* the first misused string of the feature list, in list order
FirstMisused(d) ==
    LET fs == Unwrap(d.features)
        i == CHOOSE k \in 1..Len(fs) : Misused(fs[k]) /\ \A j \in 1..(k - 1) : ~Misused(fs[j])
    IN  fs[i]

\* C7 as stated: a feature list holding a string with '/' or starting with
\* 'dep:' makes to_dependency fail with an error naming the first such string
\* and the dependency, before any path joins the nested paths; a list without
\* one never raises that error.
C7_FeatureSyntaxAlwaysReported ==
    Resolving =>
        /\ HasMisused(TheDep) =>
              /\ ~TheResult.ok
              /\ FeatureError(TheError)
              /\ TheError.what = FirstMisused(TheDep)
              /\ TheError.about = depName
              /\ nested_paths = <<>>
        /\ ~HasMisused(TheDep) => (TheResult.ok \/ ~FeatureError(TheError))

\* C7 amended: such a feature list makes to_dependency fail before any path
\* joins the nested paths, whatever source fields are set; the error names the
\* first such string and the dependency unless branch, tag or rev is set
\* without git, which is reported first; a list without such a string never
\* raises the feature error.
C7_FeatureSyntax ==
    Resolving =>
        /\ HasMisused(TheDep) =>
              /\ ~TheResult.ok
              /\ nested_paths = <<>>
              /\ GitKeyWithoutGit(TheDep) => TheError.kind = "GitOnlyKey"
              /\ ~GitKeyWithoutGit(TheDep) =>
                    /\ FeatureError(TheError)
                    /\ TheError.what = FirstMisused(TheDep)
                    /\ TheError.about = depName
        /\ ~HasMisused(TheDep) => (TheResult.ok \/ ~FeatureError(TheError))

C7_Witness ==
    /\ Resolving
    /\ IsSome(TheDep.path)
    /\ TheDep.features = Some(<<FeatA, FeatDep>>)
    /\ ~TheResult.ok
    /\ TheError = Error("FeatureDepPrefix", FeatDep, depName)
    /\ nested_paths = <<>>

PublicGateError(e) == e.kind = "GateNotEnabled" /\ e.what = <<"public-dependency">>

PublicEnabled == "public-dependency" \in cx.features

\* what the same call returns for the declaration with `public` taken out
WithoutPublic ==
    to_dependency(DetailedDep([TheDep EXCEPT !.public = None]), depName, cx, depKind,
                  <<>>, <<>>)

\* C22 as stated: a declaration that sets public fails with the gate error
\* when public-dependency is not enabled, fails when it is enabled and the
\* kind is Development or Build, and carries the declared value only for a
\* Normal dependency with the gate enabled; a declaration that does not set
\* public never raises the gate error.
C22_PublicAlwaysGateError ==
    Resolving =>
        /\ (IsSome(TheDep.public) /\ ~PublicEnabled) =>
              (~TheResult.ok /\ PublicGateError(TheError))
        /\ (IsSome(TheDep.public) /\ PublicEnabled /\ depKind # None) => ~TheResult.ok
        /\ (IsSome(TheDep.public) /\ TheResult.ok) =>
              /\ PublicEnabled
              /\ depKind = None
              /\ Unwrap(TheResult.dep).public = Unwrap(TheDep.public)
        /\ IsNone(TheDep.public) => (TheResult.ok \/ ~PublicGateError(TheError))

\* C22 amended: a declaration that sets public fails when public-dependency
\* is not enabled, and fails when it is enabled and the kind is Development
\* or Build; the error is the one the declaration without public fails on,
\* if it fails, and otherwise the gate error, respectively the error naming
\* the kind; only a Normal dependency with the gate enabled carries the
\* declared value; a declaration that does not set public never raises the
\* gate error.
C22_Public ==
    Resolving =>
        /\ (IsSome(TheDep.public) /\ ~PublicEnabled) =>
              /\ ~TheResult.ok
              /\ WithoutPublic.ok =>
                    (PublicGateError(TheError) /\ TheError.about = depName)
              /\ ~WithoutPublic.ok => TheError = Unwrap(WithoutPublic.err)
        /\ (IsSome(TheDep.public) /\ PublicEnabled /\ depKind # None) =>
              /\ ~TheResult.ok
              /\ WithoutPublic.ok =>
                    /\ TheError.kind = "PublicNotNormal"
                    /\ TheError.what = <<Unwrap(depKind)>>
              /\ ~WithoutPublic.ok => TheError = Unwrap(WithoutPublic.err)
        /\ (IsSome(TheDep.public) /\ PublicEnabled /\ depKind = None) =>
              /\ TheResult.ok = WithoutPublic.ok
              /\ TheResult.ok =>
                    Unwrap(TheResult.dep) =
                        [Unwrap(WithoutPublic.dep) EXCEPT !.public = Unwrap(TheDep.public)]
        /\ (IsSome(TheDep.public) /\ TheResult.ok) =>
              /\ PublicEnabled
              /\ depKind = None
              /\ Unwrap(TheResult.dep).public = Unwrap(TheDep.public)
        /\ IsNone(TheDep.public) => (TheResult.ok \/ ~PublicGateError(TheError))

\* a Development dependency that sets public = true with the gate enabled
\* and no other fault is refused for its kind
C22_Witness ==
    /\ Resolving
    /\ TheDep.public = Some(TRUE)
    /\ PublicEnabled
    /\ depKind = Some("Development")
    /\ WithoutPublic.ok
    /\ ~TheResult.ok
    /\ TheError.kind = "PublicNotNormal"

SpecifierWithoutArtifact(d) == IsNone(d.artifact) /\ (IsSome(d.lib) \/ IsSome(d.target))

FirstSpecifier(d) == IF IsSome(d.lib) THEN "lib" ELSE "target"

SentinelOutsideBuild(d) ==
    IsSome(d.artifact) /\ d.target = Some("target") /\ depKind # Some("Build")

\* what the same call returns for the declaration with artifact, lib and
\* target taken out
WithoutArtifact ==
    to_dependency(DetailedDep([TheDep EXCEPT !.artifact = None, !.lib = None,
                                             !.target = None]),
                  depName, cx, depKind, <<>>, <<>>)

\* C23 as stated: lib or target without artifact fails with the error naming
\* the first set specifier, lib before target; artifact with target =
\* "target" outside build-dependencies fails; a declaration with none of the
\* three resolves without artifact linkage.
C23_SpecifierAlwaysNamed ==
    Resolving =>
        /\ SpecifierWithoutArtifact(TheDep) =>
              /\ ~TheResult.ok
              /\ TheError = Error("SpecifierWithoutArtifact", <<FirstSpecifier(TheDep)>>, depName)
        /\ SentinelOutsideBuild(TheDep) => ~TheResult.ok
        /\ (IsNone(TheDep.artifact) /\ IsNone(TheDep.lib) /\ IsNone(TheDep.target)
               /\ TheResult.ok) => IsNone(Unwrap(TheResult.dep).artifact)

\* C23 amended: lib or target without artifact fails; the error is the one
\* the declaration without the three fields fails on, if it fails, and
\* otherwise the error naming the first set specifier, lib before target;
\* artifact with target = "target" outside build-dependencies fails, on that
\* setting when the declaration is otherwise sound and the artifact kinds
\* parse; a declaration with none of the three resolves without artifact
\* linkage, and a resolved dependency has one only if artifact is set.
C23_Artifact ==
    Resolving =>
        /\ SpecifierWithoutArtifact(TheDep) =>
              /\ ~TheResult.ok
              /\ WithoutArtifact.ok =>
                    TheError = Error("SpecifierWithoutArtifact",
                                     <<FirstSpecifier(TheDep)>>, depName)
              /\ ~WithoutArtifact.ok => TheError = Unwrap(WithoutArtifact.err)
        /\ SentinelOutsideBuild(TheDep) =>
              /\ ~TheResult.ok
              /\ (WithoutArtifact.ok /\ Artifact_parse_ok(Unwrap(TheDep.artifact))) =>
                    TheError = Error("TargetSentinelOutsideBuild", <<"target">>, depName)
              /\ ~WithoutArtifact.ok => TheError = Unwrap(WithoutArtifact.err)
        /\ TheResult.ok => (IsSome(Unwrap(TheResult.dep).artifact) <=> IsSome(TheDep.artifact))
        /\ (TheResult.ok /\ IsSome(TheDep.artifact)) =>
              /\ Unwrap(Unwrap(TheResult.dep).artifact).is_lib = UnwrapOr(TheDep.lib, FALSE)
              /\ depKind = Some("Build") \/ TheDep.target # Some("target")

\* lib = false and target both set without artifact, on a sound declaration:
\* refused, naming lib
C23_Witness ==
    /\ Resolving
    /\ IsNone(TheDep.artifact)
    /\ TheDep.lib = Some(FALSE)
    /\ IsSome(TheDep.target)
    /\ WithoutArtifact.ok
    /\ ~TheResult.ok
    /\ TheError = Error("SpecifierWithoutArtifact", <<"lib">>, depName)

\* the declaration gives a version and nothing else
OnlyVersion(td) ==
    \/ td.tag = "Simple"
    \/ /\ td.tag = "Detailed"
       /\ IsSome(Unwrap(td.detailed).version)
       /\ Unwrap(td.detailed) = [DetailedDefault EXCEPT !.version = Unwrap(td.detailed).version]

WrittenVersion(td) == IF td.tag = "Simple" THEN Unwrap(td.simple) ELSE Unwrap(Unwrap(td.detailed).version)

\* the warnings a version string alone gives rise to
VersionWarnings(v, name) ==
    IF \E i \in 1..Len(v) : v[i] = "+" THEN <<Warning("SemverMetadata", v, name)>> ELSE <<>>

\* C27: a bare version string and the detailed declaration with only that
\* version resolve alike, for every name, kind and context: to the dependency
\* of that name from the default index with that version requirement, default
\* features on, not optional, no features, of the kind and platform of the
\* call; with the same warnings (one if the version carries build metadata)
\* and no nested path; or both to the same error if the version does not parse.
C27_SimpleIsDetailedVersion ==
    (Resolving /\ OnlyVersion(dep)) =>
        /\ nested_paths = <<>>
        /\ warnings = VersionWarnings(WrittenVersion(dep), depName)
        /\ TheResult.warnings = warnings
        /\ WrittenVersion(dep) # VersionInvalid =>
              /\ TheResult.ok
              /\ Unwrap(TheResult.dep) =
                    [name |-> depName, source_id |-> SourceId_crates_io,
                     version_req |-> Some(WrittenVersion(dep)), features |-> <<>>,
                     default_features |-> TRUE, optional |-> FALSE,
                     platform |-> cx.platform, registry_id |-> None,
                     kind |-> UnwrapOr(depKind, "Normal"), explicit_name_in_toml |-> None,
                     public |-> FALSE, artifact |-> None]
        /\ WrittenVersion(dep) = VersionInvalid =>
              /\ ~TheResult.ok
              /\ TheError = Error("InvalidVersionReq", VersionInvalid, depName)

\* the bare string "1.0+m" as build-dependency b of a platform table
C27_Witness ==
    /\ Resolving
    /\ dep = Simple(VersionMeta)
    /\ depName = "b"
    /\ depKind = Some("Build")
    /\ cx.platform = Some("cfg(unix)")
    /\ TheResult.ok
    /\ Unwrap(TheResult.dep).version_req = Some(VersionMeta)
    /\ Unwrap(TheResult.dep).source_id = SourceId_crates_io
    /\ warnings = <<Warning("SemverMetadata", VersionMeta, "b")>>

-----------------------------------------------------------------------------
(* Properties of TomlProfile::merge *)

Merged == pc = "merged"

\* the merge as the override rules describe it, a knob and a key at a time
RECURSIVE ReferenceMerge(_, _)
ReferenceMerge(base, over) ==
    [k \in DOMAIN base |->
        IF k \in ScalarKnobs
        THEN (IF over[k] # None THEN over[k] ELSE base[k])
        ELSE IF k = "package"
        THEN (IF over.package = None THEN base.package
              ELSE IF base.package = None THEN over.package
              ELSE LET bp == base.package[1]
                       op == over.package[1]
                   IN  <<[key \in (DOMAIN bp) \cup (DOMAIN op) |->
                            IF key \in DOMAIN bp /\ key \in DOMAIN op
                            THEN ReferenceMerge(bp[key], op[key])
                            ELSE IF key \in DOMAIN op THEN op[key] ELSE bp[key]]>>)
        ELSE (IF over.build_override = None THEN base.build_override
              ELSE IF base.build_override = None THEN over.build_override
              ELSE <<ReferenceMerge(base.build_override[1], over.build_override[1])>>)]

\* C8: merge(base, override) is the reference merge: each of the 15 knobs is
\* the override's when the override sets it and the base's otherwise; the
\* package map holds the union of the keys, a common key the recursive merge,
\* the others their entry unchanged; build-override is the recursive merge when
\* both have one, otherwise whichever is present.
C8_MergeIsReferenceMerge ==
    Merged => Unwrap(merged) = ReferenceMerge(Unwrap(selfProfile), Unwrap(otherProfile))

\* release with package."*".opt-level = 3, merged with package.foo.debug = true
\* and build-override { lto = true }
C8_Witness ==
    /\ Merged
    /\ Unwrap(selfProfile).package = Some([k \in {"*"} |-> WithKnob(EmptyProfile, "opt_level", "3")])
    /\ Unwrap(selfProfile).inherits = Some("dev")
    /\ IsSome(Unwrap(otherProfile).package)
    /\ DOMAIN Unwrap(Unwrap(otherProfile).package) = {"foo", "*"}
    /\ Unwrap(Unwrap(otherProfile).package)["*"].debug = Some(Tagged("Bool", "true"))
    /\ Unwrap(Unwrap(merged).package)["*"]
         = [EmptyProfile EXCEPT !.opt_level = Some("3"), !.debug = Some(Tagged("Bool", "true"))]
    /\ Unwrap(Unwrap(merged).package)["foo"] = Unwrap(Unwrap(otherProfile).package)["foo"]
    /\ Unwrap(merged).inherits = Some("dev")

\* C9: merging a profile with a copy of itself leaves it unchanged.
C9_SelfMergeIdempotent ==
    Merged /\ otherProfile = selfProfile => merged = selfProfile

C9_Witness ==
    /\ Merged
    /\ otherProfile = selfProfile
    /\ IsSome(Unwrap(selfProfile).package)
    /\ IsSome(Unwrap(selfProfile).build_override)
    /\ DOMAIN Unwrap(Unwrap(selfProfile).package) = {"foo", "*"}
    /\ merged = selfProfile

-----------------------------------------------------------------------------
(* Properties of TomlProfile::validate *)

Validated == pc = "validated"

\* the override nodes of a profile: its build-override and the entries of its package map
OverrideNodes(profile) ==
    (IF IsSome(profile.build_override) THEN {Unwrap(profile.build_override)} ELSE {})
        \cup (IF IsSome(profile.package)
              THEN {Unwrap(profile.package)[k] : k \in DOMAIN Unwrap(profile.package)}
              ELSE {})

\* the node carries a package map or a build-override, or sets panic, lto or rpath
BadOverrideShape(node) ==
    \/ IsSome(node.package)
    \/ IsSome(node.build_override)
    \/ IsSome(node.panic)
    \/ IsSome(node.lto)
    \/ IsSome(node.rpath)

OverrideShapeError(e) == e.kind \in {"NestedOverride", "ForbiddenInOverride"}

\* C10: validate fails for every named profile with an override node (its
\* build-override or an entry of its package map) that carries a package map
\* or a build-override or sets panic, lto or rpath; an override node with none
\* of the five passes the override-shape check, so a profile all of whose
\* override nodes are such never fails with an override-shape error.
C10_OverrideShape ==
    Validated =>
        LET profile == Unwrap(selfProfile)
            r == Unwrap(validateResult)
        IN  /\ (\E node \in OverrideNodes(profile) : BadOverrideShape(node)) => ~r.ok
            /\ \A node \in OverrideNodes(profile) :
                  ~BadOverrideShape(node) =>
                      /\ validate_override(node, "package") = None
                      /\ validate_override(node, "build-override") = None
            /\ (\A node \in OverrideNodes(profile) : ~BadOverrideShape(node))
                  => (r.ok \/ ~OverrideShapeError(Unwrap(r.err)))

\* a package entry that sets rpath, in a profile nothing else is wrong with
C10_Witness ==
    /\ Validated
    /\ LET profile == Unwrap(selfProfile)
       IN  /\ IsSome(profile.package)
           /\ profile.build_override = Some(WithKnob(EmptyProfile, "opt_level", "3"))
           /\ DOMAIN Unwrap(profile.package) = {"foo", "*"}
           /\ Unwrap(profile.package)["foo"] = WithKnob(EmptyProfile, "debug", Tagged("Bool", "true"))
           /\ Unwrap(profile.package)["*"] = WithKnob(EmptyProfile, "rpath", TRUE)
           /\ profile.panic = None
           /\ profile.codegen_backend = None
    /\ ~Unwrap(validateResult).ok
    /\ Unwrap(validateResult).err = Some(Error("ForbiddenInOverride", <<"rpath">>, <<"package">>))

\* every character of the name is a letter, a digit, '_' or '-'
AllowedCharacters(name) ==
    \A i \in DOMAIN name : is_alphanumeric(name[i]) \/ name[i] \in {"_", "-"}

\* the lower-cased name is debug, build-override or a reserved word, or starts with cargo
ReservedName(name) ==
    \/ to_lowercase(name) \in ReservedProfileNames \cup {NameDebug, NameBuildOverride}
    \/ /\ Len(name) >= 5
       /\ SubSeq(to_lowercase(name), 1, 5) = NameCargo

AcceptableName(name) == AllowedCharacters(name) /\ ~ReservedName(name)

NameError(e) == e.kind \in {"InvalidCharacter", "ReservedName"}

\* C11: validate_name accepts a profile name if and only if every character
\* is alphanumeric, '_' or '-' and the lower-cased name is not debug, not
\* build-override, not a reserved word and does not start with cargo; the
\* test does not depend on the case of the name as written; validate puts
\* every name it is called with to the test: it succeeds for no name the
\* test rejects, and it fails with the error of the test when the checks of
\* the profile and its overrides, which come first, pass.
C11_ProfileName ==
    Validated =>
        LET name == Unwrap(profileName)
            r == Unwrap(validateResult)
        IN  /\ (validate_name(name) = None) <=> AcceptableName(name)
            /\ IsSome(validate_name(name)) => NameError(Unwrap(validate_name(name)))
            /\ ReservedName(name) <=> ReservedName(Capitalised(name))
            /\ r.ok => AcceptableName(name)
            /\ ~AcceptableName(name)
                  /\ validate_overrides(Unwrap(selfProfile), name, cargo_features) = None
                  => ~r.ok /\ r.err = validate_name(name)

\* a reserved word written with a capital, in a profile nothing else is wrong with
C11_Witness ==
    /\ Validated
    /\ profileName = Some(<<"R", "u", "s", "t", "d", "o", "c">>)
    /\ selfProfile = Some(EmptyProfile)
    /\ ~Unwrap(validateResult).ok
    /\ Unwrap(validateResult).err =
          Some(Error("ReservedName", <<"choose a different name">>,
                     <<"R", "u", "s", "t", "d", "o", "c">>))

\* the profile and its override nodes
ProfileTree(profile) == {profile} \cup OverrideNodes(profile)

\* the node sets a gated knob whose capability is not enabled
NeedsGate(node) ==
    \/ IsSome(node.codegen_backend) /\ "codegen-backend" \notin cargo_features
    \/ IsSome(node.rustflags) /\ "profile-rustflags" \notin cargo_features

SetsGatedKnob(node) == IsSome(node.codegen_backend) \/ IsSome(node.rustflags)

ProfileGateError(e) ==
    e.kind = "GateNotEnabled" /\ e.what \in {<<"codegen-backend">>, <<"profile-rustflags">>}

\* the backend name holds a character other than an ASCII letter, digit or _
BadBackendName(node) ==
    /\ IsSome(node.codegen_backend)
    /\ \E i \in DOMAIN Unwrap(node.codegen_backend) :
          /\ ~is_ascii_alphanumeric(Unwrap(node.codegen_backend)[i])
          /\ Unwrap(node.codegen_backend)[i] # "_"

C26_DirNameRefused ==
    Validated =>
        LET profile == Unwrap(selfProfile)
            r == Unwrap(validateResult)
        IN  /\ IsSome(profile.dir_name) =>
                  /\ ~r.ok
                  /\ (validate_overrides(profile, Unwrap(profileName), cargo_features) = None
                        /\ validate_name(Unwrap(profileName)) = None) =>
                        /\ Unwrap(r.err) = Error("DirNameNotAllowed", <<Unwrap(profile.dir_name)>>,
                                                 Unwrap(profileName))
                        /\ r.warnings = <<>>
            /\ IsNone(profile.dir_name) =>
                  (r.ok \/ Unwrap(r.err).kind # "DirNameNotAllowed")

\* the profile release with dir-name = "release" and nothing else set
C26_Witness ==
    /\ Validated
    /\ profileName = Some(<<"r", "e", "l", "e", "a", "s", "e">>)
    /\ selfProfile = Some(WithKnob(EmptyProfile, "dir_name", "release"))
    /\ ~Unwrap(validateResult).ok
    /\ Unwrap(validateResult).err
          = Some(Error("DirNameNotAllowed", <<"release">>, <<"r", "e", "l", "e", "a", "s", "e">>))

\* every override node of the profile nests nothing and sets none of panic, lto, rpath
OneLevel(profile) == \A node \in OverrideNodes(profile) : ~BadOverrideShape(node)

\* C29: merge preserves the one-level nesting: among profiles whose override
\* nodes carry no package map, no build-override and none of panic, lto and
\* rpath, every profile a sequence of merges produces has only such override
\* nodes, and each merge keeps every override node of both profiles' maps.
C29_OneLevelPreserved ==
    /\ \A p \in pool : OneLevel(p)
    /\ pc = "pool" /\ IsSome(merged) =>
          /\ OneLevel(Unwrap(merged))
          /\ Unwrap(merged) \in pool
          /\ IsSome(Unwrap(selfProfile).package) \/ IsSome(Unwrap(otherProfile).package) =>
                DOMAIN Unwrap(Unwrap(merged).package)
                    = (IF IsSome(Unwrap(selfProfile).package)
                       THEN DOMAIN Unwrap(Unwrap(selfProfile).package) ELSE {})
                      \cup (IF IsSome(Unwrap(otherProfile).package)
                            THEN DOMAIN Unwrap(Unwrap(otherProfile).package) ELSE {})
          /\ IsSome(Unwrap(merged).build_override)
                <=> (IsSome(Unwrap(selfProfile).build_override)
                        \/ IsSome(Unwrap(otherProfile).build_override))

\* a profile made by two merges whose package map and build-override both
\* come from merging override nodes of two profiles
C29_Witness ==
    /\ pc = "pool"
    /\ IsSome(merged)
    /\ Unwrap(merged) \notin ChainProfiles
    /\ Unwrap(selfProfile) \notin ChainProfiles
    /\ IsSome(Unwrap(merged).package)
    /\ DOMAIN Unwrap(Unwrap(merged).package) = {"foo", "*"}
    /\ Unwrap(Unwrap(merged).package)["foo"].opt_level = Some("s")
    /\ Unwrap(Unwrap(merged).package)["foo"].debug = Some(Tagged("Bool", "false"))
    /\ IsSome(Unwrap(merged).build_override)
    /\ Unwrap(Unwrap(merged).build_override).codegen_units = Some(16)
    /\ Unwrap(Unwrap(merged).build_override).debug = Some(Tagged("U32", "2"))

\* C30: merge is associative and leaves its argument as it was: for all
\* profiles a, b, c at hand, those produced by earlier merges included,
\* merging b and then c into a gives the profile that merging into a the
\* result of merging c into b gives; and the profile passed as the argument of
\* a call is still at hand, unchanged, after the call.
C30_MergeAssociative ==
    /\ \A a \in pool, b \in pool, c \in pool :
          merge(merge(a, b), c) = merge(a, merge(b, c))
    /\ pc = "pool" /\ IsSome(merged) =>
          /\ Unwrap(otherProfile) \in pool
          /\ Unwrap(selfProfile) \in pool
          /\ Unwrap(merged) = merge(Unwrap(selfProfile), Unwrap(otherProfile))

\* three profiles with package maps and build-overrides, and the merge of the
\* merge of two of them with the third, different from all three
C30_Witness ==
    /\ pc = "pool"
    /\ Cardinality(pool) = 5
    /\ IsSome(merged)
    /\ Unwrap(selfProfile) \notin ChainProfiles
    /\ Unwrap(otherProfile) \in ChainProfiles
    /\ Unwrap(merged) \notin ChainProfiles
    /\ Unwrap(merged) # Unwrap(selfProfile)
    /\ IsSome(Unwrap(otherProfile).package)
    /\ IsSome(Unwrap(otherProfile).build_override)
    /\ IsSome(Unwrap(selfProfile).package)
    /\ IsSome(Unwrap(selfProfile).build_override)

-----------------------------------------------------------------------------
(* Properties of to_real_manifest *)

Done == pc = "done" /\ IsSome(passResult)

Returned == Unwrap(passResult)

ReturnedManifest == Done /\ Returned.kind = "Ok" /\ IsSome(Returned.manifest)

NoManifest == Done /\ Returned.kind \in {"Err", "Panic"} /\ Returned.manifest = None

PassError == Unwrap(Returned.err)

\* the tables of dependencies the pass reads: of two spellings the first
ReadTables(t) ==
    <<t.dependencies, OrElse(t.dev_dependencies, t.dev_dependencies2),
      OrElse(t.build_dependencies, t.build_dependencies2)>>

\* a field of the package, or the badges, is declared { workspace = true }
FieldRequestsInheritance(m) ==
    LET project == Unwrap(OrElse(m.project, m.package))
    IN  \E k \in InheritableKeys :
            LET mw == IF k = "version" THEN Some(project.version) ELSE declared(m, project, k)
            IN  IsSome(mw) /\ Unwrap(mw).tag = "Workspace" /\ Unwrap(mw).workspace = Some(TRUE)

EntryRequestsInheritance(tables) ==
    \E i \in 1..Len(tables) :
        /\ IsSome(tables[i])
        /\ \E n \in DOMAIN Unwrap(tables[i]) :
              LET td == Unwrap(tables[i])[n]
              IN  td.tag = "Workspace" /\ Unwrap(td.ws).workspace

\* something in the document asks for a value of the workspace root
RequestsInheritance(m) ==
    /\ IsSome(OrElse(m.project, m.package))
    /\ \/ FieldRequestsInheritance(m)
       \/ EntryRequestsInheritance(ReadTables(m))
       \/ /\ IsSome(m.target)
          /\ \E name \in DOMAIN Unwrap(m.target) :
                EntryRequestsInheritance(ReadTables(Unwrap(m.target)[name]))

\* C1: within one pass the root document is loaded at most once, however
\* many fields and dependency entries request inheritance: a load happens only
\* on a request, the request that finds the cell empty fills it unless the pass
\* ends there, a filled cell is never recomputed, and a pass whose document
\* requests no inheritance makes no request and no load.
C1_RootLoadedAtMostOnce ==
    /\ [](/\ loads <= 1
          /\ loads <= requests
          /\ ~RequestsInheritance(me) => requests = 0 /\ loads = 0)
    /\ [][/\ IsSome(inherit_cell) => inherit_cell' = inherit_cell /\ loads' = loads
          /\ IsNone(inherit_cell) /\ requests' > requests /\ pc' # "done" =>
                IsSome(inherit_cell')]_vars

\* a member of a workspace got its manifest after three requests or more
C1_Witness ==
    /\ ReturnedManifest
    /\ requests >= 3
    /\ loads = 1
    /\ IsSome(inherit_cell)

\* two of the dependencies pushed so far have one name in the table and
\* different sources
Conflict(ds) ==
    \E i, j \in 1..Len(ds) :
        /\ name_in_toml_of(ds[i]) = name_in_toml_of(ds[j])
        /\ ds[i].source_id # ds[j].source_id

SourceConflictReported == NoManifest /\ PassError.kind = "DifferentSourcePaths"

RemoteFieldCount(d) == SetCount(<<d.git, d.registry, d.registry_index>>)

TwoRemoteFields(td) == td.tag = "Detailed" /\ RemoteFieldCount(Unwrap(td.detailed)) >= 2

\* a table holds a declaration with two of git, registry, registry-index
HoldsTwoRemoteFields(table) ==
    /\ IsSome(table)
    /\ \E n \in DOMAIN Unwrap(table) : TwoRemoteFields(Unwrap(table)[n])

\* a table the pass reads holds one: the tables of the document and of its
\* platforms, [replace], the tables of [patch]
DeclaresTwoRemoteFields(m) ==
    \/ \E i \in 1..3 : HoldsTwoRemoteFields(ReadTables(m)[i])
    \/ /\ IsSome(m.target)
       /\ \E name \in DOMAIN Unwrap(m.target), i \in 1..3 :
             HoldsTwoRemoteFields(ReadTables(Unwrap(m.target)[name])[i])
    \/ HoldsTwoRemoteFields(m.replace)
    \/ /\ IsSome(m.patch)
       /\ \E url \in DOMAIN Unwrap(m.patch) : HoldsTwoRemoteFields(Some(Unwrap(m.patch)[url]))

\* the calls of to_dependency, so far, on such a declaration
ResolvedTwoRemoteFields == {i \in 1..Len(processed) : TwoRemoteFields(processed[i].decl)}

\* C4 as stated: every resolution of a declaration with two of git, registry,
\* registry-index set fails with the field-conflict error, returns no
\* dependency, and the pass returns no manifest.
C4_TwoRemoteFieldsAlwaysFieldConflict ==
    \A i \in ResolvedTwoRemoteFields :
        /\ ~processed[i].ok
        /\ processed[i].dep = None
        /\ SourceConflictError(Unwrap(processed[i].err))
        /\ NoManifest

\* C4: every resolution of a declaration with two of git, registry,
\* registry-index set fails and returns no dependency, and the pass ends there
\* without a manifest; the error is the field-conflict error unless a check
\* made earlier fails: a branch, tag or rev without git, or a misused feature
\* string; a pass that returns a manifest read no table with such a declaration.
C4_TwoRemoteFields ==
    /\ \A i \in ResolvedTwoRemoteFields :
          LET e == processed[i]
              d == Unwrap(e.decl.detailed)
          IN  /\ ~e.ok
              /\ e.dep = None
              /\ ReachesSourceCheck(d) => SourceConflictError(Unwrap(e.err))
              /\ GitKeyWithoutGit(d) => Unwrap(e.err).kind = "GitOnlyKey"
              /\ ~GitKeyWithoutGit(d) /\ HasMisused(d) => FeatureError(Unwrap(e.err))
              /\ i = Len(processed)
              /\ NoManifest
              /\ PassError.kind = "Panic" \/ PassError = Unwrap(e.err)
    /\ ReturnedManifest => ~DeclaresTwoRemoteFields(me)

\* git with registry in a table of the document: the field-conflict error,
\* and the pass returned it
C4_Witness ==
    /\ NoManifest
    /\ SourceConflictError(PassError)
    /\ \E i \in ResolvedTwoRemoteFields :
          LET d == Unwrap(processed[i].decl.detailed)
          IN  /\ IsSome(d.git) /\ IsSome(d.registry)
              /\ processed[i].err = Some(PassError)
              /\ processed[i].dep = None

\* a field of the package, or the badges, is declared { workspace = true }
FieldInherits(m, f) ==
    /\ IsSome(OrElse(m.project, m.package))
    /\ LET project == Unwrap(OrElse(m.project, m.package))
           mw == IF f = "version" THEN Some(project.version) ELSE declared(m, project, f)
       IN  IsSome(mw) /\ Unwrap(mw).tag = "Workspace" /\ Unwrap(mw).workspace = Some(TRUE)

\* the pass made a request and there is no workspace root to find
RequestWithoutRoot ==
    /\ Done
    /\ requests > 0
    /\ IsSome(workspace_config)
    /\ Unwrap(workspace_config).kind = "Member"
    /\ Unwrap(workspace_config).root = None
    /\ env.find_root = "none"

MissingWorkspaceRoot(e) == e.kind = "InheritFailed" /\ e.what = <<"NoWorkspaceRoot">>

\* the error of a field the root document does not define, naming the field
FieldNotInherited(e, f) ==
    /\ e.kind = "InheritFailed"
    /\ e.what = <<"FieldNotDefined", f>>
    /\ e.about = <<label_of(f)>>

\* the root document the pass loaded does not define the field
RootLacks(f) == IsSome(inherit_cell) /\ Unwrap(inherit_cell)[f] = None

\* the pass ended where it resolved field f
EndedOn(f) == NoManifest /\ PassError.about = <<label_of(f)>> /\ "InheritFailed" \in
                  {PassError.kind} \cup {PassError.what[i] : i \in DOMAIN PassError.what}

\* C13 as stated: a request made when no workspace root is found makes the
\* pass return the missing-workspace-root error; a field that requests
\* inheritance and that the root document loaded does not define makes the
\* pass return an error that names the field: such a pass returns no manifest,
\* and where it ends on the field, it ends with that error, returned.
C13_MissingAlwaysReported ==
    /\ RequestWithoutRoot =>
          NoManifest /\ Returned.kind = "Err" /\ MissingWorkspaceRoot(PassError)
    /\ \A f \in InheritableKeys :
          Done /\ FieldInherits(me, f) /\ RootLacks(f) =>
              /\ ~ReturnedManifest
              /\ EndedOn(f) => Returned.kind = "Err" /\ FieldNotInherited(PassError, f)

\* publish = { workspace = true } and a root document without publish: the
\* pass did not return; the unwrap() of the error panicked
C13_Witness ==
    /\ Done
    /\ FieldInherits(me, "publish")
    /\ RootLacks("publish")
    /\ Returned.kind = "Panic"
    /\ PassError = Panic("InheritFailed", <<"publish">>)
    /\ Returned.manifest = None

\* C13, what the code does: a request made when no workspace root is found
\* ends the pass without a manifest, with the missing-workspace-root error
\* returned or, for publish and the entries of the per-platform tables, a
\* panic; a pass that returns a manifest found every inheriting field defined by
\* the root document, or, for readme, a README file beside it; an error of a
\* field not defined is about a field that inherits and that the root document
\* lacks, and carries the label resolve is given for the field.
C13_Inheritance ==
    /\ RequestWithoutRoot =>
          /\ NoManifest
          /\ \/ Returned.kind = "Err" /\ MissingWorkspaceRoot(PassError)
             \/ Returned.kind = "Panic" /\ PassError.what = <<"InheritFailed">>
    /\ ReturnedManifest =>
          \A f \in InheritableKeys :
              FieldInherits(me, f) =>
                  /\ IsSome(inherit_cell)
                  /\ RootLacks(f) =>
                        f = "readme" /\ IsSome(default_readme_from_package_root(
                                                   env, Unwrap(inherit_cell).ws_root))
    /\ NoManifest /\ PassError.kind = "InheritFailed" /\ PassError.what # <<>>
          /\ Head(PassError.what) = "FieldNotDefined" =>
          LET f == PassError.what[2]
          IN  /\ Returned.kind = "Err"
              /\ FieldInherits(me, f)
              /\ RootLacks(f)
              /\ FieldNotInherited(PassError, f)
              /\ f # "publish"

\* the errors resolve raises for a field or an entry
ResolveErrors == {"InheritFailed", "GateNotEnabled", "WorkspaceFalse"}

\* the tables of dependencies of the document and of its platforms
DependencyTables ==
    {"dependencies", "dev-dependencies", "build-dependencies", "target.dependencies",
     "target.build-dependencies", "target.dev-dependencies"}

PlatformTables == {"target.dependencies", "target.build-dependencies", "target.dev-dependencies"}

\* the last entry the pass resolved, of one of these tables, was refused
EntryRefused(tables) ==
    /\ processed # <<>>
    /\ ~processed[Len(processed)].ok
    /\ processed[Len(processed)].table \in tables

\* the pass ended where resolve refused a field or an entry
ResolveRefused ==
    /\ Done
    /\ Returned.kind # "Ok"
    /\ \/ PassError.kind \in ResolveErrors
       \/ PassError.kind = "Panic" /\ Head(PassError.what) \in ResolveErrors

\* C14 as stated: a failure to resolve an entry of a dependency table of the
\* document or of a platform, or an inherited field, publish included, ends
\* the pass with an error result returned to the caller and no manifest.
C14_FailureAlwaysReturned ==
    Done /\ (EntryRefused(DependencyTables) \/ ResolveRefused) =>
        Returned.kind = "Err" /\ Returned.manifest = None

\* an entry of [target.'cfg(unix)'.dependencies] with a branch and no git: the
\* pass did not return an error; the unwrap() panicked
C14_Witness ==
    /\ Done
    /\ EntryRefused({"target.dependencies"})
    /\ Unwrap(processed[Len(processed)].err).kind = "GitOnlyKey"
    /\ Returned.kind = "Panic"
    /\ Returned.manifest = None

\* C14, what the code does: the step that meets a failure is the last step of
\* the pass and leaves no manifest; the failure is returned as the error
\* result, except in the per-platform tables and for publish, where it is a
\* panic; a pass that returns a manifest met no failure, and the warnings
\* accumulated are part of that manifest only.
C14_FailureEndsPass ==
    /\ [](Done /\ (EntryRefused(DependencyTables) \/ ResolveRefused) =>
             /\ NoManifest
             /\ EntryRefused(PlatformTables) => Returned.kind = "Panic"
             /\ EntryRefused(DependencyTables \ PlatformTables) =>
                   Returned.kind = "Err" /\ Returned.err = processed[Len(processed)].err
             /\ Returned.kind = "Panic" /\ ~EntryRefused(PlatformTables) =>
                   PassError.about \in {<<"publish">>} \cup {<<n>> : n \in DepNames})
    /\ [](ReturnedManifest =>
             /\ \A i \in 1..Len(processed) : processed[i].ok
             /\ \A i \in 1..Len(warnings) :
                   \E j \in 1..Len(Returned.manifest[1].warnings) :
                       Returned.manifest[1].warnings[j] = warnings[i])
    /\ [][/\ passResult = None /\ passResult' # None /\ Unwrap(passResult').kind # "Ok" =>
                pc' = "done" /\ Unwrap(passResult').manifest = None
          /\ passResult # None => passResult' = passResult]_vars

\* the document a returned manifest keeps
ResolvedToml == Unwrap(Returned.manifest).resolved_toml

\* a field of the resolved document, as it stands there
ResolvedField(f) ==
    IF f = "version" THEN Some(Unwrap(ResolvedToml.package).version)
    ELSE IF f = "badges" THEN ResolvedToml.badges
    ELSE Unwrap(ResolvedToml.package)[f]

\* absent, or MaybeWorkspace::Defined with a value
AbsentOrConcrete(mw) ==
    mw = None \/ (Unwrap(mw).tag = "Defined" /\ IsSome(Unwrap(mw).value))

\* every entry of the table is a Simple or a Detailed declaration
TableConcrete(table) ==
    table = None \/ \A n \in DOMAIN Unwrap(table) : Unwrap(table)[n].tag \in {"Simple", "Detailed"}

\* the dependency tables of a document or of a platform, both spellings
AllTables(t) ==
    <<t.dependencies, t.dev_dependencies, t.dev_dependencies2, t.build_dependencies,
      t.build_dependencies2>>

TablesConcrete(t) == \A i \in DOMAIN AllTables(t) : TableConcrete(AllTables(t)[i])

\* C15: in every manifest a pass returns, the resolved document holds no
\* inherit marker: each of the seventeen inheritable fields of the package,
\* badges included, is absent or a concrete value, and every entry of the
\* dependency tables of the document and of each of its platforms is a Simple
\* or a Detailed declaration.
C15_NoMarkerRemains ==
    ReturnedManifest =>
        /\ IsSome(ResolvedToml.package)
        /\ ResolvedToml.project = None
        /\ \A f \in InheritableKeys : AbsentOrConcrete(ResolvedField(f))
        /\ TablesConcrete(ResolvedToml)
        /\ IsSome(ResolvedToml.target) =>
              \A name \in DOMAIN Unwrap(ResolvedToml.target) :
                  TablesConcrete(Unwrap(ResolvedToml.target)[name])

\* a manifest returned for a document with a field and an entry that inherit:
\* both stand resolved in the document the manifest keeps
C15_Witness ==
    /\ ReturnedManifest
    /\ requests >= 2
    /\ \E f \in InheritableKeys :
          FieldInherits(me, f) /\ IsSome(ResolvedField(f)) /\ AbsentOrConcrete(ResolvedField(f))
    /\ EntryRequestsInheritance(ReadTables(me))
    /\ TablesConcrete(ResolvedToml)

\* the [replace] the step of the pass works on
ReplaceTable == Unwrap(me.replace)

\* the step of replace is taken on a document with a [replace] and no [patch]
ReplaceTaken == pc = "replace" /\ IsSome(me.replace) /\ me.patch = None

\* the keys of the table that name a package without a version
BareKeys ==
    {k \in DOMAIN ReplaceTable : PackageIdSpec_parse(k).ok /\ PackageIdSpec_parse(k).version = None}

VersionRequired(k) == Error("ReplaceNoVersion", <<k>>, <<>>)

\* the entries replace returned are the entries of the table, each with the
\* URL of its key or the index of crates.io, locked to the version of its key
ReplacedAsWritten(replaced) ==
    /\ Len(replaced) = Cardinality(DOMAIN ReplaceTable)
    /\ \A i \in 1..Len(replaced) :
          LET k == replaced[i].key
              spec == PackageIdSpec_parse(k)
          IN  /\ k \in DOMAIN ReplaceTable
              /\ spec.ok /\ IsSome(spec.version)
              /\ ReplaceTable[k].tag = "Detailed"
              /\ Unwrap(ReplaceTable[k].detailed).version = None
              /\ replaced[i].spec.name = spec.name
              /\ replaced[i].spec.version = spec.version
              /\ replaced[i].spec.url = IF spec.url = None THEN Some(CRATES_IO_INDEX) ELSE spec.url
              /\ replaced[i].dep.version_req =
                    [locked |-> Unwrap(spec.version), req |-> <<"=", Unwrap(spec.version)>>]

EntriesWritten(label, name) ==
    LET field == IF label \in {"dependencies", "target.dependencies"} THEN <<"dependencies">>
                 ELSE IF label \in {"dev-dependencies", "target.dev-dependencies"}
                 THEN <<"dev_dependencies", "dev_dependencies2">>
                 ELSE IF label \in {"build-dependencies", "target.build-dependencies"}
                 THEN <<"build_dependencies", "build_dependencies2">>
                 ELSE <<>>
        holders == IF label \in PlatformTables
                   THEN IF me.target = None THEN {}
                        ELSE {Unwrap(me.target)[k] : k \in DOMAIN Unwrap(me.target)}
                   ELSE {me}
    IN  {Unwrap(p[1][field[p[2]]])[name] :
            p \in {q \in holders \X DOMAIN field :
                      IsSome(q[1][field[q[2]]]) /\ name \in DOMAIN Unwrap(q[1][field[q[2]]])}}

ListOf(features) == UnwrapOr(features, <<>>)

\* the features and the optional of the expansion `r` of the entry `w` over `base`
FeaturesAndOptional(w, d, r) ==
    /\ r.tag = "Detailed"
    /\ ListOf(Unwrap(r.detailed).features) = ListOf(d.features) \o ListOf(w.features)
    /\ Len(ListOf(Unwrap(r.detailed).features)) = Len(ListOf(d.features)) + Len(ListOf(w.features))
    /\ IsSome(Unwrap(r.detailed).features) <=> IsSome(d.features) \/ IsSome(w.features)
    /\ IsSome(w.optional) => Unwrap(r.detailed).optional = w.optional
    /\ Unwrap(r.detailed).version = d.version

\* the calls of to_dependency, so far, on the expansion of an inheriting entry,
\* each with the entry and the entry of the root document it inherits
Expansions ==
    {<<i, td>> \in (1..Len(processed)) \X
                   UNION {EntriesWritten(l, n) : l \in DependencyTables, n \in DepNames} :
        /\ processed[i].table \in DependencyTables
        /\ td \in EntriesWritten(processed[i].table, processed[i].name)
        /\ td.tag = "Workspace"}

BaseOf(i) == Unwrap(Unwrap(inherit_cell).dependencies)[processed[i].name]

\* C20 as stated: the expansion of an inheriting entry is a detailed
\* declaration whose features are those of the root's entry followed by the
\* entry's own, whose optional is the entry's where it declares one, and whose
\* version is the root's, be the root's entry detailed or a bare version.
C20_AlwaysDetailed ==
    \A e \in Expansions :
        LET w == Unwrap(e[2].ws)
            base == BaseOf(e[1])
        IN  FeaturesAndOptional(w, IF base.tag = "Simple"
                                   THEN [DetailedDefault EXCEPT !.version = base.simple]
                                   ELSE Unwrap(base.detailed),
                                processed[e[1]].decl)

\* an entry with features = ["a"], optional = true over a root entry with
\* features = ["a"], optional = false: ["a", "a"] and optional = true
C20_Witness ==
    \E e \in Expansions :
        /\ Unwrap(e[2].ws).features = Some(<<FeatA>>)
        /\ Unwrap(e[2].ws).optional = Some(TRUE)
        /\ BaseOf(e[1]).tag = "Detailed"
        /\ Unwrap(BaseOf(e[1]).detailed).features = Some(<<FeatA>>)
        /\ Unwrap(BaseOf(e[1]).detailed).optional = Some(FALSE)
        /\ Unwrap(processed[e[1]].decl.detailed).features = Some(<<FeatA, FeatA>>)
        /\ Unwrap(processed[e[1]].decl.detailed).optional = Some(TRUE)

\* C20: the expansion of an inheriting entry over a detailed entry of the
\* root is a detailed declaration whose features are the root's followed by
\* the entry's own, duplicates kept, and whose optional is the entry's where it
\* declares one; over a bare version string it is the same, a detailed
\* declaration with that version, when the entry declares features or
\* optional, and the bare version string itself when it declares neither.
C20_Expansion ==
    \A e \in Expansions :
        LET w == Unwrap(e[2].ws)
            base == BaseOf(e[1])
            r == processed[e[1]].decl
        IN  IF base.tag = "Detailed"
            THEN FeaturesAndOptional(w, Unwrap(base.detailed), r)
            ELSE IF IsSome(w.features) \/ IsSome(w.optional)
            THEN /\ FeaturesAndOptional(w, [DetailedDefault EXCEPT !.version = base.simple], r)
                 /\ Unwrap(r.detailed).features = w.features
                 /\ Unwrap(r.detailed).optional = w.optional
            ELSE r = base

\* the declaration, as resolved, is a path dependency: path set and git not
PathDeclaration(td) ==
    td.tag = "Detailed" /\ IsSome(Unwrap(td.detailed).path) /\ Unwrap(td.detailed).git = None

PathOf(td) == Unwrap(Unwrap(td.detailed).path)

\* the paths of the path dependencies resolved, in the order of the calls
RECURSIVE ResolvedPaths(_)
ResolvedPaths(log) ==
    IF log = <<>> THEN <<>>
    ELSE (IF Head(log).ok /\ PathDeclaration(Head(log).decl)
          THEN <<PathOf(Head(log).decl)>> ELSE <<>>) \o ResolvedPaths(Tail(log))

\* the directory a path names, seen from the root of the consuming package
DirectoryOf(path) == normalize_path(Join(env.package_root, path))

\* the calls of to_dependency, so far, that resolved a path dependency
ResolvedPathCalls ==
    {i \in 1..Len(processed) : processed[i].ok /\ PathDeclaration(processed[i].decl)}

\* C21: every path dependency resolved, in a dependency table, in [replace]
\* or [patch], local or inherited, appends one entry to the nested paths, its
\* path as declared (for an inherited one as re-expressed from the consumer),
\* in the order of the calls; a call that fails appends at most its own
\* path; when the source of the consumer is a path, the SourceId is the
\* directory the path names from the consumer's root, without `.` or `..`, so
\* two spellings of one directory give equal SourceIds, and otherwise it is the
\* source of the consumer; an inherited path names the directory the root's
\* entry names from the workspace root.
C21_NestedPaths ==
    /\ \/ nested_paths = ResolvedPaths(processed)
       \/ /\ processed # <<>>
          /\ ~processed[Len(processed)].ok
          /\ PathDeclaration(processed[Len(processed)].decl)
          /\ nested_paths = Append(ResolvedPaths(processed),
                                   PathOf(processed[Len(processed)].decl))
    /\ Len(ResolvedPaths(processed)) = Cardinality(ResolvedPathCalls)
    /\ \A i \in ResolvedPathCalls :
          LET sid == Unwrap(processed[i].dep).source_id
              dir == DirectoryOf(PathOf(processed[i].decl))
          IN  IF is_path(env.source_id)
              THEN /\ sid = SourceId_for_path(dir)
                   /\ \A k \in 1..Len(dir) : dir[k] \notin {".", ".."}
                   /\ \A j \in ResolvedPathCalls :
                         DirectoryOf(PathOf(processed[j].decl)) = dir <=>
                             Unwrap(processed[j].dep).source_id = sid
              ELSE sid = env.source_id
    /\ \A e \in Expansions :
          LET base == BaseOf(e[1])
          IN  PathDeclaration(base) =>
                  /\ PathDeclaration(processed[e[1]].decl)
                  /\ DirectoryOf(PathOf(processed[e[1]].decl)) =
                        normalize_path(Join(Unwrap(inherit_cell).ws_root,
                                            Unwrap(Unwrap(base.detailed).path)))

\* a manifest for a document with `a` and `b` at one directory spelled in two
\* ways and a path in [patch]: three nested paths as written, in order, and one
\* SourceId for `a` and `b`
C21_Witness ==
    /\ ReturnedManifest
    /\ nested_paths = <<PathFoo, PathFooAgain, PathBar>>
    /\ Len(processed) = 3
    /\ Unwrap(processed[1].dep).source_id = Unwrap(processed[2].dep).source_id
    /\ Unwrap(processed[1].dep).source_id = SourceId_for_path(<<"ws", "foo">>)

\* the calls of to_dependency made for the dependency tables, in order
DepVisits == SelectSeq(processed, LAMBDA e : e.table \in DependencyTables)

NameRank(name) == CHOOSE i \in 1..Len(DepNameOrder) : DepNameOrder[i] = name

\* the keys of a table in ascending order
Ascending(keys) ==
    CHOOSE s \in [1..Cardinality(keys) -> keys] :
        \A i \in 1..Cardinality(keys), j \in 1..Cardinality(keys) :
            i < j => NameRank(s[i]) < NameRank(s[j])

\* one visit per entry of a declared table
TableVisits(table, label, platform) ==
    IF table = None THEN <<>>
    ELSE [i \in 1..Cardinality(DOMAIN Unwrap(table)) |->
             [table |-> label, name |-> Ascending(DOMAIN Unwrap(table))[i],
              platform |-> platform]]

PlatformVisits(name) ==
    LET p == Unwrap(me.target)[name]
    IN  TableVisits(p.dependencies, "target.dependencies", Some(name))
        \o TableVisits(OrElse(p.build_dependencies, p.build_dependencies2),
                       "target.build-dependencies", Some(name))
        \o TableVisits(OrElse(p.dev_dependencies, p.dev_dependencies2),
                       "target.dev-dependencies", Some(name))

RECURSIVE AllPlatformVisits(_)
AllPlatformVisits(names) ==
    IF names = <<>> THEN <<>>
    ELSE PlatformVisits(Head(names)) \o AllPlatformVisits(Tail(names))

\* every declared entry of the tables the pass processes, in the order the
\* pass takes them
DeclaredVisits ==
    TableVisits(me.dependencies, "dependencies", None)
    \o TableVisits(OrElse(me.dev_dependencies, me.dev_dependencies2), "dev-dependencies", None)
    \o TableVisits(OrElse(me.build_dependencies, me.build_dependencies2),
                   "build-dependencies", None)
    \o AllPlatformVisits(PlatformNames)

\* the entry was resolved and its name accepted
Taken(e) == e.ok /\ validate_package_name_ok(name_in_toml_of(Unwrap(e.dep)))

\* C24: the pass visits the declared entries of the dependency tables in one
\* fixed order (dependencies, dev, build, then per platform in key order its
\* dependencies, build-dependencies, dev-dependencies; each table in ascending
\* key order); a successful pass yields exactly one dependency per declared
\* entry, in that order; a failing entry is the first one in that order that
\* fails, nothing after it is visited, and the pass ends on its error (for a
\* table of a platform, in the unwrap of that error).
C24_OneDependencyPerEntry ==
    /\ Len(DepVisits) <= Len(DeclaredVisits)
    /\ \A i \in 1..Len(DepVisits) :
          /\ DepVisits[i].table = DeclaredVisits[i].table
          /\ DepVisits[i].name = DeclaredVisits[i].name
          /\ DepVisits[i].ok => Unwrap(DepVisits[i].dep).platform = DeclaredVisits[i].platform
          /\ i < Len(DepVisits) => Taken(DepVisits[i])
    /\ Len(deps) <= Len(DepVisits)
    /\ Len(DepVisits) <= Len(deps) + 1
    /\ \A i \in 1..Len(deps) : Taken(DepVisits[i]) /\ deps[i] = Unwrap(DepVisits[i].dep)
    /\ ReturnedManifest =>
          /\ Len(DepVisits) = Len(DeclaredVisits)
          /\ Unwrap(Returned.manifest).deps = deps
          /\ Len(deps) = Len(DeclaredVisits)
    /\ (Done /\ DepVisits # <<>> /\ ~Taken(DepVisits[Len(DepVisits)])) =>
          /\ Returned.kind # "Ok"
          /\ Len(deps) = Len(DepVisits) - 1
          /\ ~DepVisits[Len(DepVisits)].ok =>
                \/ PassError = Unwrap(DepVisits[Len(DepVisits)].err)
                \/ PassError = Panic(Unwrap(DepVisits[Len(DepVisits)].err).kind,
                                     Unwrap(DepVisits[Len(DepVisits)].err).about)
          /\ DepVisits[Len(DepVisits)].ok => PassError.kind \in {"InvalidPackageName", "Panic"}

\* three entries written out of key order in two tables, all resolved, and
\* the manifest lists their dependencies in table and key order
C24_Witness ==
    /\ ReturnedManifest
    /\ Len(deps) = 3
    /\ me.build_dependencies # None
    /\ me.target # None
    /\ deps[1].name = "a"
    /\ deps[2].name = "b"
    /\ deps[2].kind = "Build"
    /\ deps[3].name = "b"
    /\ deps[3].platform = Some("cfg(unix)")

InheritanceGateOff(m) == "workspace-inheritance" \notin m.cargo_features

InheritanceGateError(e) == e.kind = "GateNotEnabled" /\ e.what = <<"workspace-inheritance">>

\* the gate error, as unwrap() reports it
InheritanceGatePanic(e) == e.kind = "Panic" /\ e.what = <<"GateNotEnabled">>

\* C28 as stated: a document that requests inheritance without the
\* workspace-inheritance capability makes the pass return the gate error,
\* with no load of a root document made; a document that requests none never
\* fails on this gate.
C28_GateAlwaysReturned ==
    Done =>
        /\ (InheritanceGateOff(me) /\ RequestsInheritance(me)) =>
              /\ Returned.kind = "Err"
              /\ InheritanceGateError(PassError)
              /\ loads = 0
        /\ (~RequestsInheritance(me) /\ Returned.kind # "Ok") =>
              ~InheritanceGateError(PassError)

\* [target.'cfg(unix)'.build-dependencies] a = { workspace = true } without
\* the capability: the pass does not return the gate error, the unwrap()
\* of it panics
C28_Witness ==
    /\ Done
    /\ InheritanceGateOff(me)
    /\ ~FieldRequestsInheritance(me)
    /\ RequestsInheritance(me)
    /\ Returned.kind = "Panic"
    /\ InheritanceGatePanic(PassError)
    /\ PassError.about = <<"a">>
    /\ loads = 0

\* C28, what the code does: without the capability no step of the pass makes
\* a request or loads a root document, and a pass that requests inheritance
\* returns no manifest; it ends at the first use site, on the gate error
\* (returned, or for publish and the tables of a platform raised by unwrap())
\* unless an earlier step has failed on something else; the gate error is
\* never met by a document that requests no inheritance or has the capability.
C28_GateBeforeLoad ==
    /\ InheritanceGateOff(me) => (loads = 0 /\ requests = 0 /\ IsNone(inherit_cell))
    /\ Done =>
          /\ (InheritanceGateOff(me) /\ RequestsInheritance(me)) => ~ReturnedManifest
          /\ (Returned.kind # "Ok"
                /\ (InheritanceGateError(PassError) \/ InheritanceGatePanic(PassError))) =>
                /\ InheritanceGateOff(me)
                /\ RequestsInheritance(me)
                /\ loads = 0

-----------------------------------------------------------------------------
(* Properties of read_manifest_from_str *)

ReturnedRead == pc = "returned" /\ IsSome(passResult)

Outcome == Unwrap(passResult)

TheContents == Unwrap(document).toml

\* the [package] and the [project] the document writes
SectionsOf(toml) ==
    (IF IsSome(toml.package) THEN {Unwrap(toml.package)} ELSE {})
        \cup (IF IsSome(toml.project) THEN {Unwrap(toml.project)} ELSE {})

\* the fields the document writes as `mw` in [package] or [project], and the badges
FieldsWritten(toml, mw) ==
    {f \in InheritableKeys \ {"badges"} :
        \E project \in SectionsOf(toml) :
            project[f] = IF f = "version" THEN mw ELSE Some(mw)}
        \cup (IF toml.badges = Some(mw) THEN {"badges"} ELSE {})

TablesOf(t) == {Unwrap(t[f]) : f \in {g \in TableFields : IsSome(t[g])}}

\* every table of dependencies the document writes
TablesWritten(toml) ==
    TablesOf(toml)
        \cup (IF IsSome(toml.replace) THEN {Unwrap(toml.replace)} ELSE {})
        \cup (IF IsSome(toml.patch)
              THEN {Unwrap(toml.patch)[k] : k \in DOMAIN Unwrap(toml.patch)} ELSE {})
        \cup (IF IsSome(toml.target)
              THEN UNION {TablesOf(Unwrap(toml.target)[k]) : k \in DOMAIN Unwrap(toml.target)}
              ELSE {})
        \cup (IF IsSome(toml.workspace) /\ IsSome(Unwrap(toml.workspace).dependencies)
              THEN {Unwrap(Unwrap(toml.workspace).dependencies)} ELSE {})

\* an entry of some table is written { workspace = false }
EntryRefuses(toml) ==
    \E table \in TablesWritten(toml) : \E k \in DOMAIN table :
        table[k].tag = "Map" /\ Unwrap(table[k].map).workspace = Some(FALSE)

\* C12 as stated: a document that writes { workspace = false } for a field of
\* the package, for the badges or for an entry of a table of dependencies
\* yields no manifest, and the error of a refused field names a field the
\* document refuses.
C12_MarkerFalseRejected ==
    ReturnedRead /\ Unwrap(document).parses =>
        /\ FieldsWritten(TheContents, WorkspaceField(FALSE)) # {} \/ EntryRefuses(TheContents)
              => Outcome.manifest = None
        /\ Outcome.kind = "Err" /\ Unwrap(Outcome.err).kind = "WorkspaceFalse"
              => \E f \in FieldsWritten(TheContents, WorkspaceField(FALSE)) :
                    Unwrap(Outcome.err).about = <<f>>

\* license-file = { workspace = false } is refused under the name of license
C12_Witness ==
    /\ ReturnedRead
    /\ FieldsWritten(TheContents, WorkspaceField(FALSE)) = {"license_file"}
    /\ Outcome.kind = "Err"
    /\ Outcome.err = Some(Error("WorkspaceFalse", <<"package">>, <<"license">>))

\* C12, what the code does with { workspace = false }: an entry so written ends the reading
\* with the error of the deserializer, before any pass; a field so written in
\* the section the pass reads, or badges so written, yields no manifest, and
\* the error of its resolution names the label the field is resolved under.
C12_MarkerFalse ==
    /\ [](ReturnedRead /\ Unwrap(document).parses /\ EntryRefuses(TheContents) =>
            /\ Outcome.kind = "Err"
            /\ Unwrap(Outcome.err).kind \in {"Deserialize", "MisplacedCargoFeatures"}
            /\ me = None)
    /\ [](ReturnedRead /\ me # None /\ IsSome(OrElse(me.project, me.package)) =>
            /\ FieldsWritten([me EXCEPT !.package = OrElse(me.project, me.package),
                                        !.project = None], WorkspaceField(FALSE)) # {}
                  => Outcome.manifest = None
            /\ Outcome.kind = "Err" /\ Unwrap(Outcome.err).kind = "WorkspaceFalse"
                  => \E f \in FieldsWritten(TheContents, WorkspaceField(FALSE)) :
                        Unwrap(Outcome.err).about = <<label_of(f)>>)

\* the document writes both a [package] and a [project]
BothSections == IsSome(TheContents.package) /\ IsSome(TheContents.project)

\* C16 as stated: a document that writes both [package] and [project] is
\* rejected: the call returns an error and no manifest.
C16_BothSectionsRejected ==
    ReturnedRead /\ Unwrap(document).parses /\ BothSections =>
        Outcome.kind = "Err" /\ Outcome.manifest = None

\* a document with [project] name = "project" and a [package] of another name
\* got a manifest: the manifest of the package "project"
C16_Witness ==
    /\ ReturnedRead
    /\ BothSections
    /\ Unwrap(TheContents.project).name = "project"
    /\ Unwrap(TheContents.package).name # "project"
    /\ Outcome.kind = "Real"
    /\ Unwrap(Unwrap(Outcome.manifest).resolved_toml.package).name = "project"

\* C16, what the code does: of a document with both sections the pass reads
\* [project] and ignores [package]; the two together raise no error of their
\* own, and a manifest returned is the manifest of the [project].
C16_ProjectHidesPackage ==
    ReturnedRead /\ Unwrap(document).parses /\ BothSections =>
        /\ Outcome.kind \in {"Real", "Err", "Panic"}
        /\ Outcome.kind = "Real" =>
              LET t == Unwrap(Outcome.manifest).resolved_toml
              IN  /\ t.project = None
                  /\ Unwrap(t.package).name = Unwrap(TheContents.project).name
        /\ Outcome.kind # "Real" =>
              \A f \in FieldsWritten([TheContents EXCEPT !.project = None, !.badges = None],
                                     WorkspaceField(FALSE)) :
                  f \notin FieldsWritten([TheContents EXCEPT !.package = None],
                                         WorkspaceField(FALSE)) =>
                      Unwrap(Outcome.err).about # <<label_of(f)>>

\* the document has a [replace] and a [patch], empty or not
ReplaceAndPatchWritten(toml) == IsSome(toml.replace) /\ IsSome(toml.patch)

CannotSpecifyBoth == Error("ReplaceAndPatch", <<>>, <<>>)

\* the call ended with the 'cannot specify both' error
BothReported == ReturnedRead /\ Outcome.kind = "Err" /\ Outcome.err = Some(CannotSpecifyBoth)

\* C17 as stated: a document with both a [replace] and a [patch] fails with
\* the 'cannot specify both' error, and a document with at most one of them
\* never does.
C17_BothAlwaysReported ==
    ReturnedRead /\ Unwrap(document).parses =>
        BothReported <=> ReplaceAndPatchWritten(TheContents)

\* a virtual document with an empty [replace] and an empty [patch] was refused
C17_Witness ==
    /\ BothReported
    /\ TheContents.package = None /\ TheContents.project = None
    /\ TheContents.replace = Some(EmptyMap)
    /\ TheContents.patch = Some(EmptyMap)
    /\ Outcome.manifest = None

\* C17: a document with both a [replace] and a [patch], empty or not, yields
\* neither a manifest nor a virtual manifest; the pass of a package that comes
\* to [replace], and the pass of a virtual document without a section of a
\* package, fails there with the 'cannot specify both' error, and a pass that
\* fails earlier returns the earlier error; a document with at most one of
\* the two never raises the error.
C17_ReplaceAndPatch ==
    /\ [](ReturnedRead /\ Unwrap(document).parses /\ ReplaceAndPatchWritten(TheContents) =>
             Outcome.manifest = None /\ Outcome.kind \in {"Err", "Panic"})
    /\ [](BothReported => ReplaceAndPatchWritten(TheContents))
    /\ [][/\ me # None /\ ReplaceAndPatchWritten(me)
             /\ \/ pc = "replace"
                \/ pc = "virtual" /\ forbidden_section(me, VirtualSectionOrder) = None
             => pc' = "done" /\ passResult' = Some(PassFailed(CannotSpecifyBoth))
          /\ passResult = None /\ passResult' = Some(PassFailed(CannotSpecifyBoth))
             => pc \in {"replace", "virtual"}]_vars

\* the document has neither [package] nor [project]
VirtualDocument == TheContents.package = None /\ TheContents.project = None

\* the sections of a package a virtual document must not have
PackageShaped == SubSeq(VirtualSectionOrder, 3, Len(VirtualSectionOrder))

\* C19 as stated: a virtual document with a section of a package fails
\* before [replace], [patch] and the profiles are looked at, with no virtual
\* manifest and no nested path; a virtual document without [workspace] fails;
\* and every call returns a manifest, a virtual manifest or an error.
C19_AlwaysOneOfThree ==
    ReturnedRead /\ Unwrap(document).parses =>
        /\ VirtualDocument /\ IsSome(forbidden_section(TheContents, PackageShaped)) =>
              /\ Outcome.kind = "Err" /\ Outcome.manifest = None
              /\ nested_paths = <<>> /\ processed = <<>> /\ warnings = <<>>
        /\ VirtualDocument /\ TheContents.workspace = None =>
              Outcome.kind = "Err" /\ Outcome.manifest = None
        /\ Outcome.kind \in {"Real", "Virtual", "Err"}
        /\ Outcome.kind = "Err" <=> Outcome.manifest = None

\* a virtual document with [dependencies], [replace] and [patch]: refused for
\* the [dependencies], nothing of [replace] or [patch] was resolved
C19_Witness ==
    /\ ReturnedRead
    /\ VirtualDocument
    /\ IsSome(TheContents.dependencies)
    /\ IsSome(TheContents.replace) /\ TheContents.replace # Some(EmptyMap)
    /\ IsSome(TheContents.patch) /\ TheContents.patch # Some(EmptyMap)
    /\ Outcome.kind = "Err"
    /\ Outcome.err = Some(Error("VirtualSection", Some("dependencies"), <<>>))
    /\ Outcome.manifest = None
    /\ nested_paths = <<>> /\ processed = <<>>

\* C19, what the code does: a virtual document with a section of a package
\* is refused before [replace], [patch] and the profiles are looked at, with
\* the error that names the first such section once the document is
\* deserialized, and neither a nested path nor a warning is kept; a virtual
\* document without [workspace] yields no virtual manifest; a call that returns
\* returns a manifest for a package, a virtual manifest for a virtual document
\* with [workspace], or an error, never two of them; but a call can also panic
\* and return nothing.
C19_VirtualDocument ==
    /\ [](ReturnedRead /\ Unwrap(document).parses =>
             /\ VirtualDocument /\ IsSome(forbidden_section(TheContents, PackageShaped)) =>
                   /\ Outcome.kind = "Err" /\ Outcome.manifest = None
                   /\ nested_paths = <<>> /\ processed = <<>> /\ warnings = <<>>
                   /\ me # None =>
                         Outcome.err = Some(Error("VirtualSection",
                                                  forbidden_section(TheContents, PackageShaped),
                                                  <<>>))
             /\ VirtualDocument /\ TheContents.workspace = None =>
                   Outcome.kind \in {"Err", "Panic"} /\ Outcome.manifest = None
             /\ Outcome.kind \in {"Real", "Virtual", "Err", "Panic"}
             /\ Outcome.kind \in {"Real", "Virtual"} <=> IsSome(Outcome.manifest)
             /\ Outcome.kind \in {"Err", "Panic"} <=> IsSome(Outcome.err)
             /\ Outcome.kind = "Real" => ~VirtualDocument
             /\ Outcome.kind = "Virtual" =>
                   /\ VirtualDocument
                   /\ forbidden_section(TheContents, VirtualSectionOrder) = None
                   /\ IsSome(TheContents.workspace))
    /\ [][pc = "virtual" /\ IsSome(forbidden_section(me, VirtualSectionOrder)) =>
             /\ pc' = "done"
             /\ Unwrap(passResult').kind = "Err"
             /\ UNCHANGED <<nested_paths, processed, warnings>>]_vars

====
